---- MODULE Spec2Model ----
(***************************************************************************)
(* Model of the dependency updaters uv-keiko.py (pyproject.toml, PyPI, uv)  *)
(* and yarn-keiko.py (package.json, npm registry, yarn/npm).                *)
(*                                                                         *)
(* Text is modelled as a sequence of one-character strings, so that        *)
(* parsing, normalisation and formatting are computed character by         *)
(* character, the way the Python code computes them.                       *)
(***************************************************************************)
EXTENDS Integers, Sequences, FiniteSets, TLC

----------------------------------------------------------------------------
(* Python str primitives used by the two scripts                           *)

UpperChars == <<"A","B","C","D","E","F","G","H","I","J","K","L","M","N","O","P","Q","R","S","T","U","V","W","X","Y","Z">>

LowerChars == <<"a","b","c","d","e","f","g","h","i","j","k","l","m","n","o","p","q","r","s","t","u","v","w","x","y","z">>

DigitChars == <<"0","1","2","3","4","5","6","7","8","9">>

\* The characters of the model in code-point order (str comparison, sorted()).
Ascii == <<"\n"," ","!","\"",",","-",".","/","0","1","2","3","4","5","6","7","8","9",":",";","<","=",">","@","A","B","C","D","E","F","G","H","I","J","K","L","M","N","O","P","Q","R","S","T","U","V","W","X","Y","Z","[","]","^","_","a","b","c","d","e","f","g","h","i","j","k","l","m","n","o","p","q","r","s","t","u","v","w","x","y","z","~">>

Range(s) == {s[i] : i \in 1..Len(s)}

IndexOf(c, s) == CHOOSE i \in 1..Len(s) : s[i] = c

Ord(c) == IndexOf(c, Ascii)

IsUpper(c) == c \in Range(UpperChars)

IsLower(c) == c \in Range(LowerChars)

IsDigit(c) == c \in Range(DigitChars)

IsAlnum(c) == IsUpper(c) \/ IsLower(c) \/ IsDigit(c)

IsSpace(c) == c \in {" ", "\n"}

\* str.lower()
lower(s) == [i \in 1..Len(s) |-> IF IsUpper(s[i]) THEN LowerChars[IndexOf(s[i], UpperChars)] ELSE s[i]]

\* str.replace(a, b) for one-character a and b
replace(s, a, b) == [i \in 1..Len(s) |-> IF s[i] = a THEN b ELSE s[i]]

\* str.strip()
strip(s) ==
    IF \A i \in 1..Len(s) : IsSpace(s[i]) THEN <<>>
    ELSE LET first == CHOOSE i \in 1..Len(s) : ~IsSpace(s[i]) /\ \A j \in 1..(i-1) : IsSpace(s[j])
             last == CHOOSE i \in 1..Len(s) : ~IsSpace(s[i]) /\ \A j \in (i+1)..Len(s) : IsSpace(s[j])
         IN SubSeq(s, first, last)

\* sub in s
contains(sub, s) == \E i \in 0..(Len(s) - Len(sub)) : SubSeq(s, i+1, i+Len(sub)) = sub

\* str.split(sep) for a one-character sep
RECURSIVE split(_, _)
split(s, sep) ==
    IF sep \notin Range(s) THEN <<s>>
    ELSE LET i == CHOOSE k \in 1..Len(s) : s[k] = sep /\ \A j \in 1..(k-1) : s[j] # sep
         IN <<SubSeq(s, 1, i-1)>> \o split(SubSeq(s, i+1, Len(s)), sep)

\* sep.join(parts)
RECURSIVE join(_, _)
join(sep, parts) ==
    IF parts = <<>> THEN <<>>
    ELSE IF Len(parts) = 1 THEN parts[1]
    ELSE parts[1] \o sep \o join(sep, Tail(parts))

\* s < t in Python's string order
RECURSIVE str_less(_, _)
str_less(s, t) ==
    IF t = <<>> THEN FALSE
    ELSE IF s = <<>> THEN TRUE
    ELSE IF s[1] # t[1] THEN Ord(s[1]) < Ord(t[1])
    ELSE str_less(Tail(s), Tail(t))

\* sorted(set_of_strings) as a sequence
RECURSIVE sorted(_)
sorted(S) ==
    IF S = {} THEN <<>>
    ELSE LET m == CHOOSE x \in S : \A y \in S \ {x} : str_less(x, y)
         IN <<m>> \o sorted(S \ {m})

----------------------------------------------------------------------------
(* packaging.version: release-only versions N(.N)*; anything else is       *)
(* InvalidVersion.  The inputs of the model stay inside this fragment.     *)

\* the value standing for a raised InvalidVersion
InvalidVersion == <<-1>>

RECURSIVE int_of(_)
int_of(ds) ==
    IF ds = <<>> THEN 0
    ELSE 10 * int_of(SubSeq(ds, 1, Len(ds) - 1)) + (IndexOf(ds[Len(ds)], DigitChars) - 1)

release_of(parts) ==
    IF \A i \in 1..Len(parts) : parts[i] # <<>> /\ \A j \in 1..Len(parts[i]) : IsDigit(parts[i][j])
    THEN [i \in 1..Len(parts) |-> int_of(parts[i])]
    ELSE InvalidVersion

\* version.parse(v): the release tuple, or InvalidVersion
version_parse(v) == release_of(split(strip(v), "."))

\* release tuples compare with trailing zeros ignored (1.0 == 1.0.0)
component(r, i) == IF i <= Len(r) THEN r[i] ELSE 0

\* the comparison `>=` in place of `>`
version_greater_or_equal(a, b) ==
    \A i \in 1..(Len(a) + Len(b)) :
        (\A j \in 1..(i-1) : component(a, j) = component(b, j)) => component(a, i) >= component(b, i)

version_greater(a, b) ==
    \E i \in 1..(Len(a) + Len(b)) :
        /\ component(a, i) > component(b, i)
        /\ \A j \in 1..(i-1) : component(a, j) = component(b, j)

----------------------------------------------------------------------------
(* packaging.requirements.Requirement, for declarations of the form        *)
(*   name [extras] [op version (, op version)*]                            *)
(* (no environment markers, no direct URLs).                               *)

\* Python's None where a text is expected
None == <<"None">>

\* the truth value of an optional text: neither None nor ""
truthy(text) == text # None /\ text # <<>>

AlnumChars == Range(UpperChars) \cup Range(LowerChars) \cup Range(DigitChars)

NameChars == AlnumChars \cup {".", "_", "-"}

SpaceChars == {" ", "\n"}

\* length of the longest prefix of s made of characters of the set cs
RECURSIVE prefix_len(_, _)
prefix_len(s, cs) ==
    IF s = <<>> \/ s[1] \notin cs THEN 0 ELSE 1 + prefix_len(Tail(s), cs)

drop(s, n) == SubSeq(s, n + 1, Len(s))

lstrip(s) == drop(s, prefix_len(s, SpaceChars))

\* position of the first / last occurrence of character c in s (c occurs in s)
first_index(s, c) == CHOOSE i \in 1..Len(s) : s[i] = c /\ \A j \in 1..(i-1) : s[j] # c

last_index(s, c) == CHOOSE i \in 1..Len(s) : s[i] = c /\ \A j \in (i+1)..Len(s) : s[j] # c

strip_all(parts) == [i \in 1..Len(parts) |-> strip(parts[i])]

IsIdentifier(s) ==
    /\ s # <<>>
    /\ \A i \in 1..Len(s) : s[i] \in NameChars
    /\ IsAlnum(s[1]) /\ IsAlnum(s[Len(s)])

TwoCharOps == { <<"~","=">>, <<"=","=">>, <<"!","=">>, <<"<","=">>, <<">","=">> }

OneCharOps == { <<"<">>, <<">">> }

op_len(t) ==
    IF Len(t) >= 2 /\ SubSeq(t, 1, 2) \in TwoCharOps THEN 2
    ELSE IF Len(t) >= 1 /\ SubSeq(t, 1, 1) \in OneCharOps THEN 1
    ELSE 0

clause_of(op, ver) ==
    IF op # <<>> /\ version_parse(ver) # InvalidVersion /\ ~(\E i \in 1..Len(ver) : IsSpace(ver[i]))
    THEN [ok |-> TRUE, text |-> op \o ver]
    ELSE [ok |-> FALSE, text |-> <<>>]

split_clause(t, oplen) == clause_of(SubSeq(t, 1, oplen), strip(drop(t, oplen)))

stripped_clause(t) == split_clause(t, op_len(t))

\* one specifier clause: [ok, text], text being str(Specifier)
parse_clause(c) == stripped_clause(strip(c))

parse_clauses(parts) == [i \in 1..Len(parts) |-> parse_clause(parts[i])]

InvalidRequirement == [ok |-> FALSE, name |-> <<>>, extras |-> {}, specifier |-> {}]

req_build(name, items, clauses) ==
    IF /\ IsIdentifier(name)
       /\ \A i \in 1..Len(items) : IsIdentifier(items[i])
       /\ \A i \in 1..Len(clauses) : clauses[i].ok
    THEN [ok |-> TRUE, name |-> name, extras |-> Range(items),
          specifier |-> {clauses[i].text : i \in 1..Len(clauses)}]
    ELSE InvalidRequirement

req_spec(name, items, r2) ==
    req_build(name, items, IF r2 = <<>> THEN <<>> ELSE parse_clauses(split(r2, ",")))

req_items(name, inner, r2) ==
    req_spec(name, IF inner = <<>> THEN <<>> ELSE strip_all(split(inner, ",")), r2)

req_closed(name, r1, k) == req_items(name, strip(SubSeq(r1, 2, k - 1)), lstrip(drop(r1, k)))

req_extras(name, r1) ==
    IF r1 # <<>> /\ r1[1] = "["
    THEN IF "]" \in Range(r1) THEN req_closed(name, r1, first_index(r1, "]")) ELSE InvalidRequirement
    ELSE req_spec(name, <<>>, r1)

req_name(s, n) == req_extras(SubSeq(s, 1, n), lstrip(drop(s, n)))

\* Requirement(s): [ok, name, extras (set), specifier (set of clause texts)];
\* ok = FALSE stands for a raised InvalidRequirement
Requirement(s) == req_name(s, prefix_len(s, NameChars))

----------------------------------------------------------------------------
(* uv-keiko.py: parsing helpers                                            *)

FallbackNameChars == AlnumChars \cup {"_", "-"}

\* group 2 of ^([a-zA-Z0-9_-]+)(\[.*\])? on what follows the name
fallback_extras(rest) ==
    IF rest # <<>> /\ rest[1] = "[" /\ "]" \in Range(rest) THEN SubSeq(rest, 1, last_index(rest, "]")) ELSE <<>>

fallback_parse(s, n) ==
    IF n > 0
    THEN [original_name |-> SubSeq(s, 1, n), normalized_name |-> lower(SubSeq(s, 1, n)),
          constraint |-> <<>>, extras |-> fallback_extras(drop(s, n))]
    ELSE [original_name |-> s, normalized_name |-> lower(s), constraint |-> <<>>, extras |-> <<>>]

parse_result(s, req) ==
    IF req.ok
    THEN [original_name |-> req.name,
          normalized_name |-> lower(req.name),
          constraint |-> join(<<",">>, sorted(req.specifier)),
          extras |-> IF req.extras # {} THEN <<"[">> \o join(<<",">>, sorted(req.extras)) \o <<"]">> ELSE <<>>]
    ELSE fallback_parse(s, prefix_len(s, FallbackNameChars))

parse_stripped(s) == parse_result(s, Requirement(s))

\* parse_requirement(req_string) -> [original_name, normalized_name, constraint, extras]
parse_requirement(req_string) == parse_stripped(strip(req_string))

IsVersionTailChar(c) == IsAlnum(c) \/ c = "-"

\* length of the match of (?:\.?[0-9a-zA-Z-]+)* at the start of s
RECURSIVE version_tail_len(_)
version_tail_len(s) ==
    IF s # <<>> /\ IsVersionTailChar(s[1]) THEN 1 + version_tail_len(Tail(s))
    ELSE IF Len(s) >= 2 /\ s[1] = "." /\ IsVersionTailChar(s[2]) THEN 2 + version_tail_len(drop(s, 2))
    ELSE 0

first_digit(s) == CHOOSE i \in 1..Len(s) : IsDigit(s[i]) /\ \A j \in 1..(i-1) : ~IsDigit(s[j])

version_from(s) == SubSeq(s, 1, version_tail_len(s))

\* re.search(r'[><=~!]*\s*([0-9]+(?:\.[0-9]+)*(?:\.?[0-9a-zA-Z-]+)*)', first_constraint)
search_version(first_constraint) ==
    IF \E i \in 1..Len(first_constraint) : IsDigit(first_constraint[i])
    THEN version_from(drop(first_constraint, first_digit(first_constraint) - 1))
    ELSE None

\* extract_version_from_constraint(constraint) of uv-keiko.py
extract_version_from_constraint(constraint) ==
    IF constraint = <<>> THEN None ELSE search_version(strip(split(constraint, ",")[1]))

newer_parsed(new_parsed, old_parsed) ==
    IF new_parsed = InvalidVersion \/ old_parsed = InvalidVersion THEN TRUE
    ELSE version_greater(new_parsed, old_parsed)

\* is_version_newer(new_version, old_version), the same in both scripts
is_version_newer(new_version, old_version) ==
    IF ~truthy(old_version) THEN TRUE
    ELSE newer_parsed(version_parse(new_version), version_parse(old_version))

----------------------------------------------------------------------------
(* Python dict with insertion order: a sequence of [key, value] items      *)

dict_keys(d) == [i \in 1..Len(d) |-> d[i].key]

dict_has(d, k) == \E i \in 1..Len(d) : d[i].key = k

dict_get(d, k) == d[CHOOSE i \in 1..Len(d) : d[i].key = k].value

\* d[k] = v
dict_set(d, k, v) ==
    IF dict_has(d, k) THEN [i \in 1..Len(d) |-> IF d[i].key = k THEN [key |-> k, value |-> v] ELSE d[i]]
    ELSE Append(d, [key |-> k, value |-> v])

\* an entry of a dependency list: a requirement string, or the table {include-group = "g"}
Str(t) == [kind |-> "str", text |-> t]

IncludeGroup(g) == [kind |-> "include-group", text |-> g]

is_include_group(dep) == dep.kind = "include-group"

----------------------------------------------------------------------------
(* Registry client                                                         *)

\* the outcomes of session.get(url, timeout=15) ... response.json()
RequestExceptions == {"timeout", "http_error"}

\* JSON documents of the registries
EmptyPayload == [k \in {} |-> <<>>]

NoShapePayload == [message |-> <<"N","o","t"," ","F","o","u","n","d">>]

PyPIPayload(v) == [info |-> [version |-> v]]

NpmPayload(v) == [k \in {"dist-tags"} |-> [latest |-> v]]

Failure(kind) == [kind |-> kind, payload |-> EmptyPayload]

Json(payload) == [kind |-> "json", payload |-> payload]

\* a normalisation that folds the case only
uv_normalize_case_only(package_name) == lower(package_name)

\* normalized_name = package_name.lower().replace('_', '-')
uv_normalize(package_name) == replace(lower(package_name), "_", "-")

\* a get_package_info that never reads the cache: every call is a request
cache_lookup_refetching(cache, key, response) ==
    IF response.kind \in RequestExceptions
    THEN [cache |-> cache, info |-> EmptyPayload, found |-> FALSE, requested |-> TRUE, key |-> key]
    ELSE [cache |-> (key :> response.payload) @@ cache, info |-> response.payload,
          found |-> TRUE, requested |-> TRUE, key |-> key]

\* get_package_info from the look into the cache on: the cached document, or a
\* request, whose document is stored unless a RequestException was raised
cache_lookup(cache, key, response) ==
    IF key \in DOMAIN cache
    THEN [cache |-> cache, info |-> cache[key], found |-> TRUE, requested |-> FALSE, key |-> key]
    ELSE IF response.kind \in RequestExceptions
    THEN [cache |-> cache, info |-> EmptyPayload, found |-> FALSE, requested |-> TRUE, key |-> key]
    ELSE [cache |-> (key :> response.payload) @@ cache, info |-> response.payload,
          found |-> TRUE, requested |-> TRUE, key |-> key]

\* get_package_info of uv-keiko.py: [cache, info, found, requested, key]
\* (found = FALSE stands for the return value None)
uv_get_package_info(cache, package_name, response) == cache_lookup(cache, uv_normalize(package_name), response)

\* `not info`
no_info(r) == ~r.found \/ DOMAIN r.info = {}

\* info['info']['version'] can be read
uv_shaped(info) == "info" \in DOMAIN info /\ "version" \in DOMAIN info["info"]

uv_latest_of(r) ==
    [cache |-> r.cache,
     latest |-> IF ~no_info(r) /\ uv_shaped(r.info) THEN r.info["info"]["version"] ELSE None,
     raised |-> ~no_info(r) /\ ~uv_shaped(r.info),
     requested |-> r.requested,
     key |-> r.key]

\* get_latest_version of uv-keiko.py: [cache, latest, raised, requested, key];
\* latest = None for the return value None, raised for the KeyError of info['info']['version']
uv_get_latest_version(cache, package_name, response) ==
    uv_latest_of(uv_get_package_info(cache, package_name, response))

----------------------------------------------------------------------------
(* uv-keiko.py: Update Planner                                             *)

\* a rendering that pins the version
uv_render_pinned(original_name, extras, version) == original_name \o extras \o <<"=","=">> \o version

\* f"{original_name}{extras}>={version}"
uv_render(original_name, extras, version) == original_name \o extras \o <<">","=">> \o version

\* f"{original_name}: {old_version or 'none'} -> {latest_version}"
update_record(name, old_version, latest_version) ==
    name \o <<":"," ">> \o (IF truthy(old_version) THEN old_version ELSE <<"n","o","n","e">>)
         \o <<" ","-",">"," ">> \o latest_version

lookup_record(p, l, response) ==
    [name |-> p.normalized_name, original_name |-> p.original_name, key |-> l.key,
     requested |-> l.requested,
     response |-> IF l.requested THEN response.kind ELSE "cached",
     payload |-> IF l.requested THEN response.payload ELSE EmptyPayload,
     latest |-> l.latest, raised |-> l.raised]

\* a planner that records every declaration whose latest version was found
uv_rewritten_always_recorded(dep, p, l, response, old_version) ==
    [cache |-> l.cache,
     raised |-> l.raised,
     new_dependencies |-> IF truthy(l.latest)
                          THEN <<Str(uv_render(p.original_name, p.extras, l.latest))>> ELSE <<dep>>,
     updated_packages |-> IF truthy(l.latest)
                          THEN <<update_record(p.original_name, old_version, l.latest)>> ELSE <<>>,
     lookup |-> lookup_record(p, l, response)]

uv_rewritten(dep, p, l, response, old_version) ==
    [cache |-> l.cache,
     raised |-> l.raised,
     new_dependencies |-> IF truthy(l.latest)
                          THEN <<Str(uv_render(p.original_name, p.extras, l.latest))>> ELSE <<dep>>,
     updated_packages |-> IF truthy(l.latest) /\ is_version_newer(l.latest, old_version)
                          THEN <<update_record(p.original_name, old_version, l.latest)>> ELSE <<>>,
     lookup |-> lookup_record(p, l, response)]

uv_looked_up(dep, p, l, response) ==
    uv_rewritten(dep, p, l, response, extract_version_from_constraint(p.constraint))

uv_parsed(dep, p, cache, response) ==
    uv_looked_up(dep, p, uv_get_latest_version(cache, p.normalized_name, response), response)

\* one iteration of the loop of update_dependency_list over the string dep:
\* what is appended to new_dependencies and to updated_packages, the cache
\* afterwards, and whether the iteration raised
uv_update_dependency(dep, cache, response) == uv_parsed(dep, parse_requirement(dep.text), cache, response)

\* `not dep or not dep.strip()` for a string dep
is_blank(dep) == strip(dep.text) = <<>>

\* the lists update_pyproject walks, in its order: main, optional groups, dependency groups
has_main(d) == "project" \in DOMAIN d /\ "dependencies" \in DOMAIN d["project"]

has_optional(d) == "project" \in DOMAIN d /\ "optional-dependencies" \in DOMAIN d["project"]

has_groups(d) == "dependency-groups" \in DOMAIN d

optional_of(d) == IF has_optional(d) THEN d["project"]["optional-dependencies"] ELSE <<>>

groups_of(d) == IF has_groups(d) THEN d["dependency-groups"] ELSE <<>>

uv_slots(d) ==
    (IF has_main(d) THEN <<[section |-> "main", key |-> ""]>> ELSE <<>>)
    \o [i \in 1..Len(optional_of(d)) |-> [section |-> "optional", key |-> optional_of(d)[i].key]]
    \o [i \in 1..Len(groups_of(d)) |-> [section |-> "group", key |-> groups_of(d)[i].key]]

uv_slot_deps(d, slot) ==
    IF slot.section = "main" THEN d["project"]["dependencies"]
    ELSE IF slot.section = "optional" THEN dict_get(optional_of(d), slot.key)
    ELSE dict_get(groups_of(d), slot.key)

\* [d for d in deps if not (isinstance(d, dict) and 'include-group' in d)]
regular_deps(deps) == SelectSeq(deps, LAMBDA e : ~is_include_group(e))

\* [d for d in deps if isinstance(d, dict) and 'include-group' in d]
include_groups(deps) == SelectSeq(deps, LAMBDA e : is_include_group(e))

\* the list handed to update_dependency_list for a slot
uv_slot_input(d, slot) ==
    IF slot.section = "group" THEN regular_deps(uv_slot_deps(d, slot)) ELSE uv_slot_deps(d, slot)

\* an assignment that puts the include-markers first
uv_slot_output_markers_first(d, slot, new_deps) ==
    IF slot.section = "group" THEN include_groups(uv_slot_deps(d, slot)) \o new_deps ELSE new_deps

\* the list assigned back to the slot
uv_slot_output(d, slot, new_deps) ==
    IF slot.section = "group" THEN new_deps \o include_groups(uv_slot_deps(d, slot)) ELSE new_deps

uv_set_slot(d, slot, deps) ==
    IF slot.section = "main" THEN [d EXCEPT !["project"]["dependencies"] = deps]
    ELSE IF slot.section = "optional"
    THEN [d EXCEPT !["project"]["optional-dependencies"] = dict_set(@, slot.key, deps)]
    ELSE [d EXCEPT !["dependency-groups"] = dict_set(@, slot.key, deps)]

least(S) == CHOOSE i \in S : \A k \in S : i <= k

first_job(d, slots, j) ==
    IF \E i \in j..Len(slots) : uv_slot_input(d, slots[i]) # <<>>
    THEN least({i \in j..Len(slots) : uv_slot_input(d, slots[i]) # <<>>})
    ELSE 0

\* the first slot from position j on whose list is handed to the planner; 0 if none
uv_next_job(d, j) == first_job(d, uv_slots(d), j)

----------------------------------------------------------------------------
(* uv-keiko.py: Conflict Resolver                                          *)

\* remove_safety_from_deps, and the equal loop over the dependency groups
remove_safety_from_deps(deps_list) ==
    SelectSeq(deps_list, LAMBDA dep :
        is_include_group(dep) \/ lower(parse_requirement(dep.text).original_name) # <<"s","a","f","e","t","y">>)

map_values(d, f(_)) == [i \in 1..Len(d) |-> [key |-> d[i].key, value |-> f(d[i].value)]]

remove_safety_optional(d) ==
    IF has_optional(d)
    THEN [d EXCEPT !["project"]["optional-dependencies"] = map_values(@, remove_safety_from_deps)]
    ELSE d

remove_safety_groups(d) ==
    IF has_groups(d)
    THEN [d EXCEPT !["dependency-groups"] = map_values(@, remove_safety_from_deps)]
    ELSE d

\* a call f(data) that changes the dict in place and returns it: `data` is the
\* argument object after the call, `returned` the object that is returned
in_place(d) == [data |-> d, returned |-> d]

\* auto_resolve_psutil_safety_conflict(data)
auto_resolve_psutil_safety_conflict(d) == in_place(remove_safety_groups(remove_safety_optional(d)))

uv_signature(error_output) ==
    contains(<<"p","s","u","t","i","l">>, lower(error_output)) /\ contains(<<"s","a","f","e","t","y">>, lower(error_output))

\* a resolver that applies its fix whatever the error text says
uv_resolve_unconditionally(d, error_output) == auto_resolve_psutil_safety_conflict(d)

\* auto_resolve_conflicts(data, error_output) of uv-keiko.py
uv_auto_resolve_conflicts(d, error_output) ==
    IF uv_signature(error_output) THEN auto_resolve_psutil_safety_conflict(d)
    ELSE in_place(d)

----------------------------------------------------------------------------
(* uv-keiko.py: Lock-File Extractor and apply_compatible_versions          *)

quoted(line) == split(line, "\"")[2]

\* the loop over the lines of uv.lock (update_pyproject); current_package = <<>>
\* stands for None, which the code tests by truth value as well
RECURSIVE uv_scan_lock(_, _, _)
uv_scan_lock(lines, current_package, package_versions) ==
    IF lines = <<>> THEN package_versions
    ELSE IF contains(<<"n","a","m","e"," ","="," ","\"">>, Head(lines))
    THEN uv_scan_lock(Tail(lines), lower(quoted(Head(lines))), package_versions)
    ELSE IF contains(<<"v","e","r","s","i","o","n"," ","="," ","\"">>, Head(lines)) /\ current_package # <<>>
    THEN uv_scan_lock(Tail(lines), <<>>, dict_set(package_versions, current_package, quoted(Head(lines))))
    ELSE uv_scan_lock(Tail(lines), current_package, package_versions)

uv_extract_versions(lock_content) == uv_scan_lock(split(lock_content, "\n"), <<>>, <<>>)

uv_apply_parsed(dep, p, package_versions) ==
    IF dict_has(package_versions, p.normalized_name)
    THEN Str(uv_render(p.original_name, p.extras, dict_get(package_versions, p.normalized_name)))
    ELSE dep

uv_apply_to_dep(dep, package_versions) ==
    IF is_include_group(dep) THEN dep
    ELSE uv_apply_parsed(dep, parse_requirement(dep.text), package_versions)

uv_apply_to_list(deps, package_versions) ==
    [i \in 1..Len(deps) |-> uv_apply_to_dep(deps[i], package_versions)]

uv_apply_to_dict(groups, package_versions) ==
    [i \in 1..Len(groups) |-> [key |-> groups[i].key, value |-> uv_apply_to_list(groups[i].value, package_versions)]]

uv_apply_main(d, package_versions) ==
    IF has_main(d)
    THEN [d EXCEPT !["project"]["dependencies"] = uv_apply_to_list(@, package_versions)]
    ELSE d

uv_apply_optional(d, package_versions) ==
    IF has_optional(d)
    THEN [d EXCEPT !["project"]["optional-dependencies"] = uv_apply_to_dict(@, package_versions)]
    ELSE d

uv_apply_groups(d, package_versions) ==
    IF has_groups(d)
    THEN [d EXCEPT !["dependency-groups"] = uv_apply_to_dict(@, package_versions)]
    ELSE d

\* apply_compatible_versions(data, package_versions) of uv-keiko.py (in place)
uv_apply_compatible_versions(d, package_versions) ==
    uv_apply_groups(uv_apply_optional(uv_apply_main(d, package_versions), package_versions), package_versions)

\* f"{pkg}: -> {ver} (UV resolved)" for every item of package_versions
uv_resolved_records(package_versions) ==
    [i \in 1..Len(package_versions) |->
        package_versions[i].key \o <<":"," ","-",">"," ">> \o package_versions[i].value \o <<" ","(","U","V"," ","r","e","s","o","l","v","e","d",")">>]

----------------------------------------------------------------------------
(* yarn-keiko.py: Registry Client, constraints, Update Planner             *)

\* get_package_info of yarn-keiko.py: the cache key is the name as given
yarn_get_package_info(cache, package_name, response) == cache_lookup(cache, package_name, response)

\* info.get('dist-tags', {}).get('latest')
npm_latest(info) ==
    IF "dist-tags" \in DOMAIN info /\ "latest" \in DOMAIN info["dist-tags"] THEN info["dist-tags"]["latest"]
    ELSE None

yarn_latest_of(r) ==
    [cache |-> r.cache,
     latest |-> IF ~no_info(r) /\ truthy(npm_latest(r.info)) THEN npm_latest(r.info) ELSE None,
     raised |-> FALSE,
     requested |-> r.requested,
     key |-> r.key]

\* get_latest_version of yarn-keiko.py
yarn_get_latest_version(cache, package_name, response) ==
    yarn_latest_of(yarn_get_package_info(cache, package_name, response))

YarnOpChars == {"~", "^", ">", "=", "<"}

\* re.match(r'^([~^>=<]*)(.+)$', t): the operator run gives back one character
\* when it reaches the end of t; no match on the empty text or across a newline
match_constraint(constraint, t, n) ==
    IF t = <<>> \/ "\n" \in Range(t) THEN [operator |-> <<>>, version |-> constraint]
    ELSE IF n = Len(t) THEN [operator |-> SubSeq(t, 1, n - 1), version |-> drop(t, n - 1)]
    ELSE [operator |-> SubSeq(t, 1, n), version |-> drop(t, n)]

constraint_stripped(constraint, t) == match_constraint(constraint, t, prefix_len(t, YarnOpChars))

\* parse_version_constraint(constraint) -> [operator, version]
parse_version_constraint(constraint) ==
    IF ~truthy(constraint) THEN [operator |-> <<>>, version |-> None]
    ELSE constraint_stripped(constraint, strip(constraint))

version_or_none(version_str) == IF truthy(version_str) THEN version_str ELSE None

\* extract_version_from_constraint(constraint) of yarn-keiko.py
yarn_extract_version_from_constraint(constraint) ==
    IF ~truthy(constraint) THEN None
    ELSE version_or_none(parse_version_constraint(constraint).version)

\* f"^{version}"
yarn_render(version) == <<"^">> \o version

Item(k, v) == [key |-> k, value |-> v]

named(pkg_name) == [normalized_name |-> pkg_name, original_name |-> pkg_name]

yarn_rewritten(item, l, response, old_version) ==
    [cache |-> l.cache,
     raised |-> l.raised,
     new_dependencies |-> IF truthy(l.latest) THEN <<Item(item.key, yarn_render(l.latest))>> ELSE <<item>>,
     updated_packages |-> IF truthy(l.latest) /\ is_version_newer(l.latest, old_version)
                          THEN <<update_record(item.key, old_version, l.latest)>> ELSE <<>>,
     lookup |-> lookup_record(named(item.key), l, response)]

yarn_looked_up(item, l, response) ==
    yarn_rewritten(item, l, response, yarn_extract_version_from_constraint(item.value))

\* one iteration of the loop of update_dependency_group over the item
\* (pkg_name, current_constraint)
yarn_update_dependency(item, cache, response) ==
    yarn_looked_up(item, yarn_get_latest_version(cache, item.key, response), response)

\* the sections update_package_json walks, in its order
YarnSections == << "dependencies", "devDependencies", "optionalDependencies" >>

has_section(d, section) == section \in DOMAIN d

\* `'dependencies' in data and data['dependencies']`
yarn_todo(d, i) == has_section(d, YarnSections[i]) /\ d[YarnSections[i]] # <<>>

\* the first section from position j on that is handed to the planner; 0 if none
yarn_next_job(d, j) ==
    IF \E i \in j..Len(YarnSections) : yarn_todo(d, i)
    THEN least({i \in j..Len(YarnSections) : yarn_todo(d, i)})
    ELSE 0

----------------------------------------------------------------------------
(* yarn-keiko.py: Conflict Resolver                                        *)

dev_has(d, pkg) == has_section(d, "devDependencies") /\ dict_has(d["devDependencies"], pkg)

\* the state of a fix under way: the manifest, the cache, the lookups made
fix_state(d, cache, lookups) == [data |-> d, cache |-> cache, lookups |-> lookups]

latest_set(st, pkg, l, response) ==
    fix_state(IF truthy(l.latest)
              THEN [st.data EXCEPT !["devDependencies"] = dict_set(@, pkg, yarn_render(l.latest))]
              ELSE st.data,
              l.cache,
              Append(st.lookups, lookup_record(named(pkg), l, response)))

\* info = self.get_package_info(pkg); if info: latest = info.get('dist-tags', {}).get('latest');
\* if latest: data['devDependencies'][pkg] = f"^{latest}"
set_dev_to_latest(st, pkg, response) ==
    latest_set(st, pkg, yarn_get_latest_version(st.cache, pkg, response), response)

align_types(st, pkg, response) == IF dev_has(st.data, pkg) THEN set_dev_to_latest(st, pkg, response) ELSE st

align_react_dom(d, react_version) ==
    IF has_section(d, "dependencies") /\ dict_has(d["dependencies"], <<"r","e","a","c","t","-","d","o","m">>)
    THEN [d EXCEPT !["dependencies"] = dict_set(@, <<"r","e","a","c","t","-","d","o","m">>, yarn_render(react_version))]
    ELSE d

react_aligned(d, cache, react_version, response1, response2) ==
    IF truthy(react_version)
    THEN align_types(align_types(fix_state(align_react_dom(d, react_version), cache, <<>>),
                                 <<"@","t","y","p","e","s","/","r","e","a","c","t">>, response1),
                     <<"@","t","y","p","e","s","/","r","e","a","c","t","-","d","o","m">>, response2)
    ELSE fix_state(d, cache, <<>>)

\* align_react_versions(data)
align_react_versions(d, cache, response1, response2) ==
    react_aligned(d, cache,
                  IF has_section(d, "dependencies") /\ dict_has(d["dependencies"], <<"r","e","a","c","t">>)
                  THEN yarn_extract_version_from_constraint(dict_get(d["dependencies"], <<"r","e","a","c","t">>))
                  ELSE None,
                  response1, response2)

\* resolve_typescript_conflicts(data)
resolve_typescript_conflicts(d, cache, response) ==
    align_types(fix_state(d, cache, <<>>), <<"t","y","p","e","s","c","r","i","p","t">>, response)

\* [pkg for pkg in data['devDependencies'].keys() if 'eslint' in pkg.lower()]
eslint_packages(dev) == SelectSeq(dict_keys(dev), LAMBDA pkg : contains(<<"e","s","l","i","n","t">>, lower(pkg)))

\* resolve_eslint_conflicts(data): of the eslint packages only 'eslint' itself is updated
resolve_eslint_conflicts(d, cache, response) ==
    IF has_section(d, "devDependencies") /\ <<"e","s","l","i","n","t">> \in Range(eslint_packages(d["devDependencies"]))
    THEN set_dev_to_latest(fix_state(d, cache, <<>>), <<"e","s","l","i","n","t">>, response)
    ELSE fix_state(d, cache, <<>>)

react_signature(e) == contains(<<"r","e","a","c","t">>, e) /\ (contains(<<"p","e","e","r">>, e) \/ contains(<<"v","e","r","s","i","o","n">>, e))

typescript_signature(e) == contains(<<"t","y","p","e","s","c","r","i","p","t">>, e) \/ contains(<<"@","t","y","p","e","s">>, e)

eslint_signature(e) == contains(<<"e","s","l","i","n","t">>, e)

yarn_signature(error_output) ==
    \/ react_signature(lower(error_output))
    \/ typescript_signature(lower(error_output))
    \/ eslint_signature(lower(error_output))

common_conflicts(d, cache, error_lower, response1, response2) ==
    IF react_signature(error_lower) THEN align_react_versions(d, cache, response1, response2)
    ELSE IF typescript_signature(error_lower) THEN resolve_typescript_conflicts(d, cache, response1)
    ELSE IF eslint_signature(error_lower) THEN resolve_eslint_conflicts(d, cache, response1)
    ELSE fix_state(d, cache, <<>>)

\* auto_resolve_conflicts / auto_resolve_common_conflicts of yarn-keiko.py:
\* data is changed in place and returned
yarn_auto_resolve_conflicts(d, cache, error_output, response1, response2) ==
    common_conflicts(d, cache, lower(error_output), response1, response2)

----------------------------------------------------------------------------
(* yarn-keiko.py: Lock-File Extractor and apply_compatible_versions        *)

\* the class [^@\s]
YarnNameChars == Range(Ascii) \ {"@", " ", "\n"}

starts_with(s, prefix) == Len(s) >= Len(prefix) /\ SubSeq(s, 1, Len(prefix)) = prefix

NoMatch == [ok |-> FALSE, name |-> <<>>, version |-> <<>>, end |-> 0]

\* "([^"]+)" at position p of c
quoted_at(c, p, name) ==
    IF p + 1 <= Len(c) /\ c[p] = "\"" /\ c[p + 1] # "\"" /\ "\"" \in Range(drop(c, p))
    THEN [ok |-> TRUE, name |-> name,
          version |-> SubSeq(c, p + 1, p + first_index(drop(c, p), "\"") - 1),
          end |-> p + first_index(drop(c, p), "\"")]
    ELSE NoMatch

\* \s+"([^"]+)" at position p of c
spaced_at(c, p, name) ==
    IF prefix_len(drop(c, p - 1), SpaceChars) >= 1
    THEN quoted_at(c, p + prefix_len(drop(c, p - 1), SpaceChars), name)
    ELSE NoMatch

\* version\s+"([^"]+)" at position p of c
word_at(c, p, name) ==
    IF starts_with(drop(c, p - 1), <<"v","e","r","s","i","o","n">>) THEN spaced_at(c, p + 7, name) ELSE NoMatch

\* \s*version\s+"([^"]+)" at position p of c
tail_at(c, p, name) == word_at(c, p + prefix_len(drop(c, p - 1), SpaceChars), name)

\* .*?: and the tail from position p of c: the first colon of the line after which the tail matches
RECURSIVE colon_from(_, _, _)
colon_from(c, p, name) ==
    IF p > Len(c) \/ c[p] = "\n" THEN NoMatch
    ELSE IF c[p] = ":" /\ tail_at(c, p + 1, name).ok THEN tail_at(c, p + 1, name)
    ELSE colon_from(c, p + 1, name)

\* ([^@\s]+)@ and the rest at position p of c
name_at(c, p, n) ==
    IF n >= 1 /\ p + n <= Len(c) /\ c[p + n] = "@"
    THEN colon_from(c, p + n + 1, SubSeq(c, p, p + n - 1))
    ELSE NoMatch

plain_at(c, p) == name_at(c, p, prefix_len(drop(c, p - 1), YarnNameChars))

\* the whole pattern at the line start p: the optional quote is taken if that matches
entry_at(c, p) ==
    IF p <= Len(c) /\ c[p] = "\"" /\ plain_at(c, p + 1).ok THEN plain_at(c, p + 1)
    ELSE plain_at(c, p)

is_line_start(c, p) == p = 1 \/ c[p - 1] = "\n"

\* re.findall(r'^"?([^@\s]+)@.*?:\s*version\s+"([^"]+)"', content, re.MULTILINE)
\* from position p on, folded into package_versions
RECURSIVE yarn_scan_lock(_, _, _)
yarn_scan_lock(c, p, package_versions) ==
    IF p > Len(c) THEN package_versions
    ELSE IF is_line_start(c, p) /\ entry_at(c, p).ok
    THEN yarn_scan_lock(c, entry_at(c, p).end + 1,
                        dict_set(package_versions, entry_at(c, p).name, entry_at(c, p).version))
    ELSE yarn_scan_lock(c, p + 1, package_versions)

\* the yarn.lock branch of update_package_json
yarn_extract_versions(content) == yarn_scan_lock(content, 1, <<>>)

NodeModules == <<"n","o","d","e","_","m","o","d","u","l","e","s","/">>

\* the package-lock.json branch of update_package_json, over lock_data['packages'].items()
RECURSIVE npm_scan_packages(_, _)
npm_scan_packages(packages, package_versions) ==
    IF packages = <<>> THEN package_versions
    ELSE IF starts_with(Head(packages).key, NodeModules) /\ "version" \in DOMAIN Head(packages).value
    THEN npm_scan_packages(Tail(packages),
                           dict_set(package_versions, drop(Head(packages).key, 13), Head(packages).value["version"]))
    ELSE npm_scan_packages(Tail(packages), package_versions)

npm_extract_versions(lock_data) ==
    IF "packages" \in DOMAIN lock_data THEN npm_scan_packages(lock_data["packages"], <<>>) ELSE <<>>

yarn_apply_to_item(item, package_versions) ==
    IF dict_has(package_versions, item.key)
    THEN Item(item.key, yarn_render(dict_get(package_versions, item.key)))
    ELSE item

yarn_apply_to_section(d, section, package_versions) ==
    IF has_section(d, section)
    THEN [d EXCEPT ![section] = [i \in 1..Len(@) |-> yarn_apply_to_item(@[i], package_versions)]]
    ELSE d

\* an apply_compatible_versions that treats peerDependencies like the others
yarn_apply_to_peers_too(d, package_versions) ==
    yarn_apply_to_section(
        yarn_apply_to_section(
            yarn_apply_to_section(
                yarn_apply_to_section(d, "dependencies", package_versions),
                "devDependencies", package_versions),
            "optionalDependencies", package_versions),
        "peerDependencies", package_versions)

\* apply_compatible_versions(data, package_versions) of yarn-keiko.py (in place)
yarn_apply_compatible_versions(d, package_versions) ==
    yarn_apply_to_section(
        yarn_apply_to_section(
            yarn_apply_to_section(d, "dependencies", package_versions),
            "devDependencies", package_versions),
        "optionalDependencies", package_versions)

\* str(n) for n >= 0
RECURSIVE str_of_int(_)
str_of_int(n) == IF n < 10 THEN <<DigitChars[n + 1]>> ELSE str_of_int(n \div 10) \o <<DigitChars[(n % 10) + 1]>>

\* the number of resolved packages update_package_json lists
ShownResolved == 10

min(a, b) == IF a <= b THEN a ELSE b

\* f"{pkg}: -> {ver} (resolved)" for the first ten items, then "... and N more packages"
yarn_resolved_records(package_versions) ==
    [i \in 1..min(ShownResolved, Len(package_versions)) |->
        package_versions[i].key \o <<":"," ","-",">"," ">> \o package_versions[i].value \o <<" ","(","r","e","s","o","l","v","e","d",")">>]
    \o (IF Len(package_versions) > ShownResolved
        THEN << <<".",".","."," ","a","n","d"," ">> \o str_of_int(Len(package_versions) - ShownResolved) \o <<" ","m","o","r","e"," ","p","a","c","k","a","g","e","s">> >>
        ELSE <<>>)

----------------------------------------------------------------------------
(* Compatibility Verifier                                                  *)

\* exit codes the external tool is let to return: 0..MaxExitCode
MaxExitCode == 2

ExitCodes == 0..MaxExitCode

\* the verdict of check_uv_compatibility on the tool's exit code
uv_verdict(returncode) == returncode = 0

\* a verdict that takes exit code 0 only, whatever the package manager
yarn_verdict_zero_only(use_npm, returncode) == returncode = 0

\* the verdict of check_package_manager_compatibility on the tool's exit code:
\* `npm audit` may also exit with 1; everything else goes through returncode == 0
yarn_verdict(use_npm, returncode) == (use_npm /\ returncode \in {0, 1}) \/ returncode = 0

----------------------------------------------------------------------------
(* Inputs of the model                                                     *)

\* number of versions the registry may report as latest
NumVersions == 1

VersionPool == << <<"1",".","5",".","0">>, <<"1",".","9",".","0">>, <<"3",".","0",".","0">>, <<"0",".","9">> >>

Versions == {VersionPool[i] : i \in 1..NumVersions}

\* what PyPI may answer to one request when the latest versions it may
\* report are versions
UvResponses(versions) ==
    {Failure(k) : k \in RequestExceptions}
    \cup {Json(PyPIPayload(v)) : v \in versions}
    \cup {Json(EmptyPayload), Json(NoShapePayload)}

\* what the runs of the verifier's tool print (result.stderr, result.stdout):
\* nothing with exit code 0, an error on stderr with an odd exit code, a
\* warning on stderr and the failure on stdout with the other codes
NoOutput == [stderr |-> <<>>, stdout |-> <<>>]

ToolOutput(rc) ==
    IF rc = 0 THEN NoOutput
    ELSE IF rc % 2 = 1
    THEN [stderr |-> <<"e","r","r","o","r",":"," ","S","a","f","e","t","y"," ","r","e","q","u","i","r","e","s"," ","p","s","u","t","i","l","<","7",","," ","b","u","t"," ","p","s","u","t","i","l",">","=","7",".","0",".","0"," ","i","s"," ","r","e","q","u","e","s","t","e","d">>, stdout |-> <<>>]
    ELSE [stderr |-> <<"w","a","r","n","i","n","g",":"," ","l","o","c","k","f","i","l","e"," ","i","g","n","o","r","e","d">>, stdout |-> <<"N","o"," ","s","o","l","u","t","i","o","n"," ","f","o","u","n","d">>]

\* capture_output=True: result.stderr and result.stdout of a run that ended
captured(outcome, rc) == IF outcome = "exited" THEN ToolOutput(rc) ELSE NoOutput

\* stderr of a failed `uv lock --upgrade`
UvErrTexts == { <<>>,
                <<"e","r","r","o","r",":"," ","S","a","f","e","t","y"," ","r","e","q","u","i","r","e","s"," ","p","s","u","t","i","l","<","7",","," ","b","u","t"," ","p","s","u","t","i","l",">","=","7",".","0",".","0"," ","i","s"," ","r","e","q","u","e","s","t","e","d">>,
                <<"e","r","r","o","r",":"," ","n","o"," ","s","o","l","u","t","i","o","n"," ","f","o","u","n","d">> }

\* uv.lock as the tool may leave it; LockMissing: no file was produced
LockMissing == <<"missing">>

UvLockFull == <<"v","e","r","s","i","o","n"," ","="," ","1","\n","\n","[","[","p","a","c","k","a","g","e","]","]","\n","n","a","m","e"," ","="," ","\"","f","o","o","-","b","a","r","\"","\n","v","e","r","s","i","o","n"," ","="," ","\"","1",".","0",".","0","\"","\n","\n","[","[","p","a","c","k","a","g","e","]","]","\n","n","a","m","e"," ","="," ","\"","S","a","f","e","t","y","\"","\n","v","e","r","s","i","o","n"," ","="," ","\"","2",".","5","\"","\n">>

UvLockEmpty == <<"v","e","r","s","i","o","n"," ","="," ","1","\n">>

UvLockTruncated == <<"[","[","p","a","c","k","a","g","e","]","]","\n","n","a","m","e"," ","="," ","\"","p","s","u","t","i","l","\"","\n","[","[","p","a","c","k","a","g","e","]","]","\n","n","a","m","e"," ","="," ","\"","f","o","o","_","b","a","r","\"","\n","v","e","r","s","i","o","n"," ","="," ","\"","1",".","4","\"","\n">>

UvLockTexts == {UvLockFull, UvLockEmpty, UvLockTruncated}

Project(fields) == [k \in {"project"} |-> fields]

Groups(g) == [k \in {"dependency-groups"} |-> g]

UvManifest1 ==
    Project([k \in {"dependencies", "optional-dependencies"} |->
               IF k = "dependencies" THEN << Str(<<"F","o","o","_","B","a","r","[","b",",","a","]",">","=","1",".","2",".","0">>) >>
               ELSE << Item("dev", << Str(<<"s","a","f","e","t","y",">","=","1",".","2",".","0",",","<","2",".","0",".","0">>), Str(<<"f","o","o","-","b","a","r",">","=","2",".","0",".","0">>) >>) >>])

UvManifest2 ==
    Project([k \in {"dependencies"} |-> << Str(<<"S","a","f","e","t","y">>), Str(<<" "," ">>) >>])
    @@ Groups(<< Item("lint", << IncludeGroup(<<"f","m","t">>) >>),
                 Item("test", << IncludeGroup(<<"l","i","n","t">>), Str(<<"s","a","f","e","t","y",">","=">>), IncludeGroup(<<"f","m","t">>), Str(<<"p","s","u","t","i","l",">","=","2",".","0",".","0">>) >>) >>)

UvManifest3 ==
    Project([k \in {"optional-dependencies"} |-> << Item("docs", <<>>), Item("dev", << Str(<<"p","s","u","t","i","l">>) >>) >>])
    @@ Groups(<< Item("test", << Str(<<"S","A","F","E","T","Y",">","=","1",".","2",".","0">>), IncludeGroup(<<"d","e","v">>) >>) >>)

UvManifests == {UvManifest1, UvManifest2, UvManifest3}

\* what the npm registry may answer to one request
YarnResponses(versions) ==
    {Failure(kind) : kind \in RequestExceptions}
    \cup {Json(NpmPayload(v)) : v \in versions}
    \cup {Json(EmptyPayload), Json(NoShapePayload)}

\* stderr of a failed `yarn install --mode=update-lockfile` / `npm install --package-lock-only`
YarnErrTexts == { <<>>,
                  <<"E","R","E","S","O","L","V","E"," ","c","o","u","l","d"," ","n","o","t"," ","r","e","s","o","l","v","e",":"," ","p","e","e","r"," ","R","e","a","c","t","@","\"","^","1",".","0",".","0","\""," ","f","r","o","m"," ","r","e","a","c","t","-","d","o","m">>,
                  <<"c","o","n","f","l","i","c","t","i","n","g"," ","@","t","y","p","e","s"," ","p","a","c","k","a","g","e","s">>,
                  <<"E","S","L","i","n","t"," ","p","l","u","g","i","n"," ","m","i","s","m","a","t","c","h">>,
                  <<"n","e","t","w","o","r","k"," ","u","n","r","e","a","c","h","a","b","l","e">> }

\* yarn.lock as the tool may leave it: classic format, berry format
YarnLockClassic == <<"#"," ","y","a","r","n"," ","l","o","c","k","f","i","l","e"," ","v","1","\n","\n","r","e","a","c","t","@","^","1",".","5",".","0",":","\n"," "," ","v","e","r","s","i","o","n"," ","\"","1",".","5",".","0","\"","\n","\n","\"","@","t","y","p","e","s","/","r","e","a","c","t","@",">","=","3",".","0",".","0","\"",":","\n"," "," ","v","e","r","s","i","o","n"," ","\"","3",".","0",".","0","\"","\n","\n","f","s","e","v","e","n","t","s","@","1",".","9",".","0",","," ","f","s","e","v","e","n","t","s","@","^","1",".","0",".","0",":","\n"," "," ","v","e","r","s","i","o","n"," ","\"","1",".","9",".","0","\"","\n">>

YarnLockBerry == <<"_","_","m","e","t","a","d","a","t","a",":","\n"," "," ","v","e","r","s","i","o","n",":"," ","6","\n","\n","\"","r","e","a","c","t","@","n","p","m",":","^","1",".","5",".","0","\"",":","\n"," "," ","v","e","r","s","i","o","n",":"," ","1",".","5",".","0","\n">>

YarnLockTexts == {YarnLockClassic, YarnLockBerry}

\* package-lock.json as the tool may leave it: with and without a "packages" table
NpmLockDocs == { [k \in {"packages"} |->
                    << Item(<<>>, [name |-> <<"a","p","p">>]),
                       Item(<<"n","o","d","e","_","m","o","d","u","l","e","s","/","f","s","e","v","e","n","t","s">>, [version |-> <<"1",".","5",".","0">>]),
                       Item(<<"n","o","d","e","_","m","o","d","u","l","e","s","/","a","/","n","o","d","e","_","m","o","d","u","l","e","s","/","e","s","l","i","n","t">>, [version |-> <<"3",".","0",".","0">>]),
                       Item(<<"n","o","d","e","_","m","o","d","u","l","e","s","/","t","y","p","e","s","c","r","i","p","t">>, [link |-> <<"t","r","u","e">>]),
                       Item(<<"p","a","c","k","a","g","e","s","/","r","e","a","c","t">>, [version |-> <<"0",".","9">>]) >>],
                 [k \in {"dependencies"} |-> << Item(<<"e","s","l","i","n","t">>, [version |-> <<"1",".","5",".","0">>]) >>] }

YarnManifest1 ==
    [k \in {"dependencies", "devDependencies", "peerDependencies"} |->
        IF k = "dependencies" THEN << Item(<<"r","e","a","c","t">>, <<"^","1",".","5",".","0">>), Item(<<"r","e","a","c","t","-","d","o","m">>, <<"~","1",".","2",".","0">>) >>
        ELSE IF k = "devDependencies" THEN << Item(<<"@","t","y","p","e","s","/","r","e","a","c","t">>, <<">","=","3",".","0",".","0">>) >>
        ELSE << Item(<<"r","e","a","c","t">>, <<">","=","1",".","0",".","0">>) >>]

YarnManifest2 ==
    [k \in {"devDependencies", "optionalDependencies"} |-> << Item(<<"e","s","l","i","n","t","-","p","l","u","g","i","n","-","r","e","a","c","t">>, <<"~","1",".","2",".","0">>) >>]

YarnManifests == {YarnManifest1, YarnManifest2}

NpmManifest1 ==
    [k \in {"dependencies", "devDependencies", "optionalDependencies"} |->
        IF k = "dependencies" THEN <<>>
        ELSE IF k = "devDependencies" THEN << Item(<<"t","y","p","e","s","c","r","i","p","t">>, <<>>), Item(<<"e","s","l","i","n","t">>, <<"l","a","t","e","s","t">>) >>
        ELSE << Item(<<"f","s","e","v","e","n","t","s">>, <<"1",".","9",".","0">>) >>]

NpmManifests == {NpmManifest1}

Manifests(v) == IF v = "uv" THEN UvManifests ELSE IF v = "yarn" THEN YarnManifests ELSE NpmManifests

----------------------------------------------------------------------------
(* One run of a script                                                     *)

VARIABLES
    variant,                \* "uv" (uv-keiko.py), "yarn" or "npm" (yarn-keiko.py [--use-npm])
    dry_run, backup,        \* PackageUpdater.dry_run, PackageUpdater.backup
    published,              \* the versions the registry may report as latest during the run
    pc,                     \* position of the run
    exit_code,              \* exit status of the process; -1 while it runs
    file,                   \* the target manifest on disk
    backup_file,            \* the .backup file on disk
    temp_dirs,              \* number of scratch directories that exist
    data,                   \* update_pyproject / update_package_json: data
    resolved_data,          \* ... resolved_data
    all_updated_packages,   \* ... all_updated_packages
    package_cache,          \* PackageUpdater.package_cache
    job,                    \* the list the planner is working on (index of the slot; 0: none)
    dependencies,           \* update_dependency_list: dependencies
    idx,                    \* ... number of entries of dependencies already handled
    new_dependencies,       \* ... new_dependencies
    updated_packages,       \* ... updated_packages
    \* history, observed but never read by the run
    loaded,                 \* the manifest as it was read from the target
    last_lookup,            \* the last call of get_latest_version
    fetch_count,            \* number of registry requests per requested name
    fetched_ok,             \* declared names whose request returned a document
    planner_data,           \* data as the Update Planner left it
    verifier_runs,          \* the calls of the Compatibility Verifier: manifest and outcome
    lock_runs,              \* number of launches of the lock-upgrade subcommand
    lock_result,            \* how the lock-upgrade subcommand ended and what it brought
    revision,               \* what the corrective pass did to data
    comparison,             \* a call of is_version_newer on its own: arguments and result
    round_trip              \* parse_requirement on a declaration and on its rendering, on their own

vars == << variant, dry_run, backup, published, pc, exit_code, file, backup_file, temp_dirs, data, resolved_data,
           all_updated_packages, package_cache, job, dependencies, idx, new_dependencies,
           updated_packages, loaded, last_lookup, fetch_count, fetched_ok, planner_data, verifier_runs,
           lock_runs, lock_result, revision, comparison, round_trip >>

config == << variant, dry_run, backup, published >>

planner == << job, dependencies, idx, new_dependencies, updated_packages >>

registry == << package_cache, last_lookup, fetch_count, fetched_ok >>

disk == << file, backup_file >>

NoManifest == [k \in {} |-> <<>>]

Missing == [state |-> "missing", content |-> NoManifest]

Complete(m) == [state |-> "complete", content |-> m]

\* the file between open(path, 'wb') and the end of dump
Partial == [state |-> "partial", content |-> NoManifest]

NoLookup == [name |-> <<>>, original_name |-> <<>>, key |-> <<>>, requested |-> FALSE,
             response |-> "none", payload |-> EmptyPayload, latest |-> None, raised |-> FALSE,
             known |-> {}, input |-> <<>>, output |-> <<>>, records |-> <<>>]

\* what one iteration of the planner did: the entry it was given, the entries
\* and the update records it appended
NoStep == [input |-> <<>>, output |-> <<>>, records |-> <<>>]

planner_step(r) == [input |-> <<dependencies[idx + 1]>>, output |-> r.new_dependencies,
                    records |-> r.updated_packages]

\* the end of the lock-upgrade subcommand: it raised, or exited with 0 and left
\* no lock file or the lock file the map package_versions was read from, or
\* exited with another code and printed error_output on stderr; records are
\* all_updated_packages as they were when the subcommand ended
LockResult(outcome, lock, package_versions, error_output) ==
    [outcome |-> outcome, lock |-> lock, package_versions |-> package_versions, error_output |-> error_output,
     records |-> all_updated_packages]

NoLockResult == [outcome |-> "none", lock |-> <<>>, package_versions |-> <<>>, error_output |-> <<>>, records |-> <<>>]

NoParse == [original_name |-> <<>>, normalized_name |-> <<>>, constraint |-> <<>>, extras |-> <<>>]

NoRoundTrip == [declaration |-> <<>>, version |-> <<>>, returned |-> FALSE, rendered |-> <<>>,
                parsed |-> NoParse, reparsed |-> NoParse]

NoComparison == [new_version |-> None, old_version |-> None, returned |-> FALSE, is_newer |-> FALSE]

NoRevision == [kind |-> "none", before |-> NoManifest, after |-> NoManifest]

\* the script has been started on a target: PackageUpdater.__init__
Constructed ==
    /\ variant \in {"uv", "yarn", "npm"}
    /\ dry_run \in BOOLEAN
    /\ backup \in BOOLEAN
    /\ pc = "start"
    /\ exit_code = -1
    /\ file \in {Complete(m) : m \in Manifests(variant)} \cup {Missing}
    /\ backup_file = Missing
    /\ temp_dirs = 0
    /\ data = NoManifest
    /\ resolved_data = NoManifest
    /\ all_updated_packages = <<>>
    /\ package_cache = [k \in {} |-> EmptyPayload]
    /\ job = 0
    /\ dependencies = <<>>
    /\ idx = 0
    /\ new_dependencies = <<>>
    /\ updated_packages = <<>>
    /\ loaded = NoManifest
    /\ last_lookup = NoLookup
    /\ fetch_count = [k \in {} |-> 0]
    /\ fetched_ok = {}
    /\ planner_data = NoManifest
    /\ verifier_runs = <<>>
    /\ lock_runs = 0
    /\ lock_result = NoLockResult
    /\ revision = NoRevision

Init == Constructed /\ published = Versions /\ comparison = NoComparison /\ round_trip = NoRoundTrip

\* an exception that reaches main(): printed, sys.exit(1)
Abort ==
    /\ pc' = "done"
    /\ exit_code' = 1

\* update_pyproject returns and main() falls off its end
Return ==
    /\ pc' = "done"
    /\ exit_code' = 0

\* the entries the planner is given for the n-th list of d
slot_input(d, n) ==
    IF n = 0 THEN <<>>
    ELSE IF variant = "uv" THEN uv_slot_input(d, uv_slots(d)[n])
    ELSE d[YarnSections[n]]

next_job(d, j) == IF variant = "uv" THEN uv_next_job(d, j) ELSE yarn_next_job(d, j)

StartJobAt(d, n) ==
    /\ job' = n
    /\ dependencies' = slot_input(d, n)
    /\ idx' = 0
    /\ new_dependencies' = <<>>
    /\ updated_packages' = <<>>
    /\ pc' = IF n = 0 THEN "verify" ELSE "plan"
    /\ planner_data' = IF n = 0 THEN d ELSE planner_data

\* the planner turns to the next list of d, or planning is over
StartJob(d, j) == StartJobAt(d, next_job(d, j))

\* update_pyproject / update_package_json: the file is missing, or it is
\* loaded and planning begins
Read ==
    /\ pc = "start"
    /\ IF file.state = "missing"
       THEN /\ Return
            /\ UNCHANGED << data, planner, loaded >>
            /\ UNCHANGED planner_data
       ELSE /\ data' = file.content
            /\ loaded' = file.content
            /\ StartJob(file.content, 1)
            /\ exit_code' = exit_code
    /\ UNCHANGED << config, comparison, round_trip, disk, temp_dirs, resolved_data, all_updated_packages, registry,
                    verifier_runs, lock_runs, lock_result, revision >>

Count(f, k) == IF k \in DOMAIN f THEN f[k] ELSE 0

\* the list is assigned back to data and update_pyproject turns to the next list
FinishJob(d, updated) ==
    /\ data' = d
    /\ all_updated_packages' = all_updated_packages \o updated
    /\ StartJob(d, job + 1)
    /\ exit_code' = exit_code

blank_step == [cache |-> package_cache, raised |-> FALSE, new_dependencies |-> <<>>,
               updated_packages |-> <<>>, lookup |-> last_lookup]

observed(lookup, known, step) ==
    [k \in DOMAIN NoLookup |-> IF k = "known" THEN known
                               ELSE IF k \in DOMAIN NoStep THEN step[k]
                               ELSE lookup[k]]

\* the request counters after the lookups
RECURSIVE counted(_, _)
counted(counts, lookups) ==
    IF lookups = <<>> THEN counts
    ELSE counted(IF Head(lookups).requested
                 THEN (Head(lookups).key :> (Count(counts, Head(lookups).key) + 1)) @@ counts
                 ELSE counts,
                 Tail(lookups))

\* the names among the lookups whose request returned a document
fetched(lookups) ==
    {lookups[i].original_name : i \in {n \in 1..Len(lookups) : lookups[n].requested /\ lookups[n].response = "json"}}

\* the effect of a sequence of lookups on the registry client
LookedAll(cache, lookups, step) ==
    /\ package_cache' = cache
    /\ last_lookup' = IF lookups = <<>> THEN last_lookup
                      ELSE observed(lookups[Len(lookups)],
                                    fetched_ok \cup fetched(SubSeq(lookups, 1, Len(lookups) - 1)),
                                    step)
    /\ fetch_count' = counted(fetch_count, lookups)
    /\ fetched_ok' = fetched_ok \cup fetched(lookups)

\* the effect r of one iteration on the registry client
Looked(r, is_lookup) == LookedAll(r.cache, IF is_lookup THEN <<r.lookup>> ELSE <<>>, planner_step(r))

\* the effect r of one iteration on the planner
UvPlanned(r, slot) ==
    IF r.raised
    THEN /\ Abort
         /\ UNCHANGED << data, all_updated_packages, planner, planner_data >>
    ELSE IF idx + 1 < Len(dependencies)
    THEN /\ idx' = idx + 1
         /\ new_dependencies' = new_dependencies \o r.new_dependencies
         /\ updated_packages' = updated_packages \o r.updated_packages
         /\ UNCHANGED << data, all_updated_packages, job, dependencies, pc, exit_code, planner_data >>
    ELSE FinishJob(uv_set_slot(data, slot, uv_slot_output(data, slot, new_dependencies \o r.new_dependencies)),
                   updated_packages \o r.updated_packages)

UvPlanStep(r, is_lookup) ==
    /\ Looked(r, is_lookup)
    /\ UvPlanned(r, uv_slots(data)[job])

\* one iteration of update_dependency_list; after the last one the list is
\* assigned back to data and update_pyproject turns to the next list
UvPlan ==
    /\ pc = "plan" /\ variant = "uv"
    /\ IF is_include_group(dependencies[idx + 1])
       THEN \* dep.strip() on a dict: AttributeError
            /\ Abort
            /\ UNCHANGED << data, all_updated_packages, planner, registry, planner_data >>
       ELSE IF is_blank(dependencies[idx + 1])
       THEN UvPlanStep(blank_step, FALSE)
       ELSE \E response \in UvResponses(published) :
               UvPlanStep(uv_update_dependency(dependencies[idx + 1], package_cache, response), TRUE)
    /\ UNCHANGED << config, comparison, round_trip, disk, temp_dirs, resolved_data, loaded, verifier_runs, lock_runs, lock_result, revision >>

\* the effect r of one iteration on the planner
YarnPlanned(r) ==
    IF idx + 1 < Len(dependencies)
    THEN /\ idx' = idx + 1
         /\ new_dependencies' = new_dependencies \o r.new_dependencies
         /\ updated_packages' = updated_packages \o r.updated_packages
         /\ UNCHANGED << data, all_updated_packages, job, dependencies, pc, exit_code, planner_data >>
    ELSE FinishJob([data EXCEPT ![YarnSections[job]] = new_dependencies \o r.new_dependencies],
                   updated_packages \o r.updated_packages)

YarnPlanStep(r) ==
    /\ Looked(r, TRUE)
    /\ YarnPlanned(r)

\* one iteration of update_dependency_group; after the last one the section is
\* assigned back to data and update_package_json turns to the next section
YarnPlan ==
    /\ pc = "plan" /\ variant # "uv"
    /\ \E response \in YarnResponses(published) :
          YarnPlanStep(yarn_update_dependency(dependencies[idx + 1], package_cache, response))
    /\ UNCHANGED << config, comparison, round_trip, disk, temp_dirs, resolved_data, loaded, verifier_runs, lock_runs, lock_result, revision >>

\* the conflict note of update_pyproject
UvConflictNote == <<"C","O","N","F","L","I","C","T"," ","R","E","S","O","L","V","E","D",":"," ","R","e","m","o","v","e","d"," ","s","a","f","e","t","y"," ","p","a","c","k","a","g","e"," ","f","o","r"," ","p","s","u","t","i","l",">","=","7",".","0",".","0"," ","c","o","m","p","a","t","i","b","i","l","i","t","y">>

\* the conflict note of update_package_json
YarnConflictNote == <<"C","O","N","F","L","I","C","T"," ","R","E","S","O","L","V","E","D",":"," ","A","p","p","l","i","e","d"," ","a","u","t","o","m","a","t","i","c"," ","f","i","x","e","s">>

verdict(rc) == IF variant = "uv" THEN uv_verdict(rc) ELSE yarn_verdict(variant = "npm", rc)

conflict_note == IF variant = "uv" THEN UvConflictNote ELSE YarnConflictNote

\* an update_* that opens the corrective pass whatever the first check said
VerifierReturnsAlwaysCorrecting(ok) ==
    /\ pc' = "lock"
    /\ UNCHANGED << data, all_updated_packages, revision >>

\* an update_* that verifies again after a failed check until the check passes
VerifierReturnsRetrying(ok) ==
    /\ pc' = IF ok THEN "write" ELSE "verify"
    /\ UNCHANGED << data, all_updated_packages, revision >>

\* check_*_compatibility(m) has returned ok to update_*: the first check
\* (pc = verify...) opens the corrective pass or goes on to writing, the
\* re-check of a fix (pc = reverify...) keeps or drops resolved_data
VerifierReturns(ok) ==
    IF pc \in {"verify", "verify_wait"}
    THEN /\ pc' = IF ok THEN "write" ELSE "lock"
         /\ UNCHANGED << data, all_updated_packages, revision >>
    ELSE /\ pc' = "write"
         /\ data' = IF ok THEN resolved_data ELSE data
         /\ all_updated_packages' = IF ok THEN Append(all_updated_packages, conflict_note)
                                    ELSE all_updated_packages
         /\ revision' = IF ok THEN [revision EXCEPT !.kind = "fix_kept"] ELSE revision

\* a scratch directory made without `with`: removed by a call at the end of
\* the block, which an exception skips
leave_temp_dir_unless_raised(dirs, raised) == IF raised THEN dirs ELSE dirs - 1

\* `with tempfile.TemporaryDirectory() as temp_dir:` left, by falling off its
\* end, by a return, or by an exception on its way to `except Exception`
leave_temp_dir(dirs, raised) == dirs - 1

checked_manifest == IF pc \in {"verify", "verify_wait"} THEN data ELSE resolved_data

\* check_*_compatibility up to subprocess.run: the tool is not on the path
\* (return True), or a scratch directory is made and the tool is launched
VerifyLaunch ==
    /\ pc \in {"verify", "reverify"}
    /\ \E on_path \in BOOLEAN :
          IF on_path
          THEN /\ temp_dirs' = temp_dirs + 1
               /\ pc' = IF pc = "verify" THEN "verify_wait" ELSE "reverify_wait"
               /\ UNCHANGED << data, all_updated_packages, verifier_runs, revision >>
          ELSE /\ verifier_runs' = Append(verifier_runs, [manifest |-> checked_manifest, outcome |-> "not_installed",
                                                          returncode |-> -1, ok |-> TRUE,
                                                          stderr |-> <<>>, stdout |-> <<>>])
               /\ VerifierReturns(TRUE)
               /\ UNCHANGED temp_dirs
    /\ UNCHANGED << config, comparison, round_trip, exit_code, disk, resolved_data, planner, registry, loaded, planner_data, lock_runs, lock_result >>

verifier_result_fail_closed(outcome, rc) == outcome = "exited" /\ verdict(rc)

\* what check_*_compatibility returns once the tool was launched: the verdict
\* on the exit code, and True from `except Exception` (launch error, timeout)
verifier_result(outcome, rc) == outcome = "exited" => verdict(rc)

\* check_*_compatibility from the end of subprocess.run: the tool exited with
\* a code, or the launch failed or timed out (except Exception: return True);
\* the scratch directory is removed on the way out
VerifyFinish ==
    /\ pc \in {"verify_wait", "reverify_wait"}
    /\ \E outcome \in {"exited", "timeout", "launch_error"}, rc \in ExitCodes :
          /\ outcome # "exited" => rc = 0
          /\ verifier_runs' = Append(verifier_runs, [manifest |-> checked_manifest, outcome |-> outcome,
                                                     returncode |-> IF outcome = "exited" THEN rc ELSE -1,
                                                     ok |-> verifier_result(outcome, rc),
                                                     stderr |-> captured(outcome, rc).stderr,
                                                     stdout |-> captured(outcome, rc).stdout])
          /\ VerifierReturns(verifier_result(outcome, rc))
          /\ temp_dirs' = leave_temp_dir(temp_dirs, outcome # "exited")
    /\ UNCHANGED << config, comparison, round_trip, exit_code, disk, resolved_data, planner, registry, loaded, planner_data, lock_runs, lock_result >>

\* the corrective pass up to subprocess.run: scratch directory, manifest
\* written there, lock-upgrade subcommand launched
LockLaunch ==
    /\ pc = "lock"
    /\ temp_dirs' = temp_dirs + 1
    /\ lock_runs' = lock_runs + 1
    /\ pc' = "lock_wait"
    /\ UNCHANGED << config, comparison, round_trip, exit_code, disk, data, resolved_data, all_updated_packages, planner, registry,
                    loaded, planner_data, verifier_runs, lock_result, revision >>

LockApplied(d, records) ==
    /\ data' = d
    /\ all_updated_packages' = records
    /\ revision' = [kind |-> "lock", before |-> data, after |-> d]

UvLockRead(package_versions) ==
    LockApplied(uv_apply_compatible_versions(data, package_versions), uv_resolved_records(package_versions))

\* resolved_data = auto_resolve_conflicts(data, error_output); if resolved_data != data
Resolved(r, matched) ==
    /\ data' = r.data
    /\ resolved_data' = r.returned
    /\ revision' = IF matched THEN [kind |-> "fix", before |-> data, after |-> r.returned] ELSE revision
    /\ pc' = IF r.returned # r.data THEN "reverify" ELSE "write"
    /\ UNCHANGED all_updated_packages

\* the corrective pass of update_pyproject from the end of `uv lock --upgrade`
UvLockFinish ==
    /\ pc = "lock_wait" /\ variant = "uv"
    /\ \/ \* subprocess.run raised: except Exception, proceed
          /\ pc' = "write"
          /\ lock_result' = LockResult("raised", <<>>, <<>>, <<>>)
          /\ UNCHANGED << data, resolved_data, all_updated_packages, revision >>
       \/ \* exit code 0
          \E lock \in UvLockTexts \cup {LockMissing} :
             /\ pc' = "write"
             /\ IF lock = LockMissing
                THEN /\ lock_result' = LockResult("no_lock_file", <<>>, <<>>, <<>>)
                     /\ UNCHANGED << data, all_updated_packages, revision >>
                ELSE /\ lock_result' = LockResult("read", lock, uv_extract_versions(lock), <<>>)
                     /\ UvLockRead(uv_extract_versions(lock))
             /\ UNCHANGED resolved_data
       \/ \* exit code not 0
          \E stderr \in UvErrTexts :
             /\ lock_result' = LockResult("failed", <<>>, <<>>, stderr)
             /\ IF stderr = <<>>
                THEN /\ pc' = "write"
                     /\ UNCHANGED << data, resolved_data, all_updated_packages, revision >>
                ELSE Resolved(uv_auto_resolve_conflicts(data, stderr), uv_signature(stderr))
    /\ temp_dirs' = leave_temp_dir(temp_dirs, lock_result'.outcome = "raised")
    /\ UNCHANGED << config, comparison, round_trip, exit_code, disk, planner, registry, loaded, planner_data, verifier_runs, lock_runs >>

YarnLockRead(package_versions) ==
    IF package_versions # <<>>
    THEN LockApplied(yarn_apply_compatible_versions(data, package_versions),
                     yarn_resolved_records(package_versions))
    ELSE UNCHANGED << data, all_updated_packages, revision >>

YarnResolved(st, matched) ==
    /\ Resolved(in_place(st.data), matched)
    /\ LookedAll(st.cache, st.lookups, NoStep)

\* the corrective pass of update_package_json from the end of the lock command
YarnLockFinish ==
    /\ pc = "lock_wait" /\ variant # "uv"
    /\ \/ \* subprocess.run or json.load raised: except Exception, proceed
          /\ pc' = "write"
          /\ lock_result' = LockResult("raised", <<>>, <<>>, <<>>)
          /\ UNCHANGED << data, resolved_data, all_updated_packages, revision, registry >>
       \/ \* exit code 0, no lock file
          /\ pc' = "write"
          /\ lock_result' = LockResult("no_lock_file", <<>>, <<>>, <<>>)
          /\ UNCHANGED << data, resolved_data, all_updated_packages, revision, registry >>
       \/ \* exit code 0, package-lock.json
          /\ variant = "npm"
          /\ pc' = "write"
          /\ \E lock_data \in NpmLockDocs :
                /\ lock_result' = LockResult("read", lock_data, npm_extract_versions(lock_data), <<>>)
                /\ YarnLockRead(npm_extract_versions(lock_data))
          /\ UNCHANGED << resolved_data, registry >>
       \/ \* exit code 0, yarn.lock
          /\ variant = "yarn"
          /\ pc' = "write"
          /\ \E content \in YarnLockTexts :
                /\ lock_result' = LockResult("read", content, yarn_extract_versions(content), <<>>)
                /\ YarnLockRead(yarn_extract_versions(content))
          /\ UNCHANGED << resolved_data, registry >>
       \/ \* exit code not 0
          \E stderr \in YarnErrTexts, response1 \in YarnResponses(published) :
          \E response2 \in IF react_signature(lower(stderr)) THEN YarnResponses(published) ELSE {response1} :
             /\ lock_result' = LockResult("failed", <<>>, <<>>, stderr)
             /\ IF stderr = <<>>
                THEN /\ pc' = "write"
                     /\ UNCHANGED << data, resolved_data, all_updated_packages, revision, registry >>
                ELSE YarnResolved(yarn_auto_resolve_conflicts(data, package_cache, stderr, response1, response2),
                                  yarn_signature(stderr))
    /\ temp_dirs' = leave_temp_dir(temp_dirs, lock_result'.outcome = "raised")
    /\ UNCHANGED << config, comparison, round_trip, exit_code, disk, planner, loaded, planner_data, verifier_runs, lock_runs >>

\* a create_backup that never copies
create_backup_skipped == backup_file

\* create_backup(): the backup file afterwards; the target is copied if the
\* script was not started with --no-backup and the target exists
create_backup == IF backup /\ file.state # "missing" THEN file ELSE backup_file

\* the end of update_* with the test of dry_run left out
WriteIgnoringDryRun ==
    /\ pc = "write"
    /\ pc' = "open"
    /\ backup_file' = create_backup
    /\ UNCHANGED << config, comparison, round_trip, exit_code, file, temp_dirs, data, resolved_data, all_updated_packages,
                    planner, registry, loaded, planner_data, verifier_runs, lock_runs, lock_result, revision >>

\* the end of update_*: nothing is written in a dry run; otherwise
\* create_backup is called and the target is opened for writing
WriteOrDryRun ==
    /\ pc = "write"
    /\ IF dry_run
       THEN /\ Return
            /\ UNCHANGED backup_file
       ELSE /\ pc' = "open"
            /\ backup_file' = create_backup
            /\ UNCHANGED exit_code
    /\ UNCHANGED << config, comparison, round_trip, file, temp_dirs, data, resolved_data, all_updated_packages, planner, registry,
                    loaded, planner_data, verifier_runs, lock_runs, lock_result, revision >>

\* an update_* that opens the target as soon as the first check has failed
OpenTargetBeforeCorrectivePass ==
    /\ pc \in {"open", "lock"}
    /\ file' = Partial
    /\ pc' = "dump"
    /\ UNCHANGED << config, comparison, round_trip, exit_code, backup_file, temp_dirs, data, resolved_data, all_updated_packages,
                    planner, registry, loaded, planner_data, verifier_runs, lock_runs, lock_result, revision >>

\* open(path, 'wb'): the target is truncated
OpenTarget ==
    /\ pc = "open"
    /\ file' = Partial
    /\ pc' = "dump"
    /\ UNCHANGED << config, comparison, round_trip, exit_code, backup_file, temp_dirs, data, resolved_data, all_updated_packages,
                    planner, registry, loaded, planner_data, verifier_runs, lock_runs, lock_result, revision >>

\* dump(data, f) and the file is closed; update_* returns
DumpTarget ==
    /\ pc = "dump"
    /\ file' = Complete(data)
    /\ Return
    /\ UNCHANGED << config, comparison, round_trip, backup_file, temp_dirs, data, resolved_data, all_updated_packages,
                    planner, registry, loaded, planner_data, verifier_runs, lock_runs, lock_result, revision >>

Next ==
    \/ Read
    \/ UvPlan
    \/ YarnPlan
    \/ VerifyLaunch
    \/ VerifyFinish
    \/ LockLaunch
    \/ UvLockFinish
    \/ YarnLockFinish
    \/ WriteOrDryRun
    \/ OpenTarget
    \/ DumpTarget

Spec == Init /\ [][Next]_vars

\* KeyboardInterrupt, or an exception nothing inside update_* catches (the
\* disk is full, the target cannot be written), at any point of the run:
\* the `with` blocks are left, main() prints and calls sys.exit(1)
Interrupt ==
    /\ pc # "done"
    /\ Abort
    /\ temp_dirs' = 0
    /\ UNCHANGED << config, comparison, round_trip, disk, data, resolved_data, all_updated_packages, planner, registry,
                    loaded, planner_data, verifier_runs, lock_runs, lock_result, revision >>

\* a run that may be interrupted
InterruptSpec == Init /\ [][Next \/ Interrupt]_vars

\* the latest versions of a registry that publishes a release during the run
LatestVersions == {VersionPool[1], VersionPool[3]}

\* the script has been started while the registry changes
LatestInit ==
    /\ Constructed /\ published = LatestVersions
    /\ comparison = NoComparison /\ round_trip = NoRoundTrip

LatestSpec == LatestInit /\ [][Next]_vars

----------------------------------------------------------------------------
(* is_version_newer on its own: the arguments are drawn from version texts *)
(* inside and outside the release fragment, the old version also from None *)
(* and the empty text                                                      *)

VersionTexts == { <<"1",".","5",".","0">>, <<"1",".","5">>, <<"1",".","1","0">>, <<"1",".","9">>, <<"2">>, <<"0",".","9">>, <<"0","1",".","5">>, <<" ","2",".","0"," ">>, <<"l","a","t","e","s","t">>, <<"1",".","x">> }

OldVersionTexts == VersionTexts \cup {None, <<>>}

CompareInit ==
    \E n \in VersionTexts, o \in OldVersionTexts :
        /\ Constructed /\ published = Versions
        /\ variant = "uv" /\ dry_run /\ backup /\ file = Missing
        /\ comparison = [new_version |-> n, old_version |-> o, returned |-> FALSE, is_newer |-> FALSE]
        /\ round_trip = NoRoundTrip

\* is_version_newer(new_version, old_version) is called and returns
Compare ==
    /\ ~comparison.returned
    /\ comparison' = [comparison EXCEPT !.returned = TRUE,
                                        !.is_newer = is_version_newer(comparison.new_version,
                                                                      comparison.old_version)]
    /\ UNCHANGED << config, round_trip, pc, exit_code, disk, temp_dirs, data, resolved_data, all_updated_packages,
                    planner, registry, loaded, planner_data, verifier_runs, lock_runs, lock_result, revision >>

CompareSpec == CompareInit /\ [][Compare]_vars

----------------------------------------------------------------------------
(* parse_requirement and the planner's rendering on their own: the         *)
(* declarations are well-formed ones and ones only the fallback handles    *)

Declarations == { <<"F","o","o","_","B","a","r","[","b",",","a","]",">","=","1",".","2",".","0">>, <<"f","o","o","-","b","a","r",">","=","2",".","0",".","0">>, <<"s","a","f","e","t","y",">","=","1",".","2",".","0",",","<","2",".","0",".","0">>, <<"S","a","f","e","t","y">>,
                  <<" "," ","p","s","u","t","i","l"," ">>, <<"z","o","p","e",".","i","n","t","e","r","f","a","c","e",">","=","1">>, <<"f","o","o"," ","[","a","]",">","=","1">>, <<"f","o","o","[","b",","," ","a","]"," ",">","="," ","1",".","5",".","0">>,
                  <<"s","a","f","e","t","y",">","=">>, <<"f","o","o",">","=","1",".","x">>, <<"z","o","p","e",".","i","n","t","e","r","f","a","c","e",">","=">>, <<"f","o","o","[","a"," ","b","]">>, <<"f","o","o","[","a","]","x","[","b","]">>,
                  <<"f","o","o","[","a","]","]">>, <<"f","o","o","[","b",",","a","]",">","=">>, <<"f","o","o","[","b",",","a","]",">","=","l","a","t","e","s","t">>, <<"@","s","c","o","p","e","/","p","k","g">>, <<".","/","p","k","g">> }

RoundTripInit ==
    \E d \in Declarations, v \in Range(VersionPool) :
        /\ Constructed /\ published = Versions
        /\ variant = "uv" /\ dry_run /\ backup /\ file = Missing
        /\ comparison = NoComparison
        /\ round_trip = [NoRoundTrip EXCEPT !.declaration = d, !.version = v]

rendered_as(p, v) == uv_render(p.original_name, p.extras, v)

reparsed_as(p, rendered) ==
    [declaration |-> round_trip.declaration, version |-> round_trip.version, returned |-> TRUE,
     rendered |-> rendered, parsed |-> p, reparsed |-> parse_requirement(rendered)]

\* parse_requirement(dep), new_dep = f"{original_name}{extras}>={latest_version}",
\* parse_requirement(new_dep)
RoundTrip ==
    /\ ~round_trip.returned
    /\ round_trip' = reparsed_as(parse_requirement(round_trip.declaration),
                                 rendered_as(parse_requirement(round_trip.declaration), round_trip.version))
    /\ UNCHANGED << config, comparison, pc, exit_code, disk, temp_dirs, data, resolved_data, all_updated_packages,
                    planner, registry, loaded, planner_data, verifier_runs, lock_runs, lock_result, revision >>

RoundTripSpec == RoundTripInit /\ [][RoundTrip]_vars

----------------------------------------------------------------------------
(* Properties                                                              *)

\* the run has ended normally after writing the target manifest
written == pc = "done" /\ exit_code = 0 /\ ~dry_run /\ file.state = "complete"

fix_applied == revision.kind \in {"fix", "fix_kept"}

\* a re-run of the Compatibility Verifier on manifest m that passed
rechecked_ok(m) == \E i \in 2..Len(verifier_runs) : verifier_runs[i].manifest = m /\ verifier_runs[i].ok

\* C1: after the Conflict Resolver applied a fix, the written manifest
\* contains the fix only if a re-run of the Compatibility Verifier on the fixed
\* manifest passed; otherwise the written manifest is the Planner's.
C1_FixKeptOnlyAfterPassingRecheck ==
    (written /\ fix_applied /\ ~rechecked_ok(revision.after)) => file.content = planner_data

\* C2: a revised manifest produced by the corrective pass (from the lock-derived
\* map or from a fix) is verified exactly once more before the run ends.
C2_RevisedManifestVerifiedOnceMore ==
    (pc = "done" /\ exit_code = 0 /\ revision.kind # "none" /\ revision.after # revision.before)
        => /\ Len(verifier_runs) = 2
           /\ verifier_runs[2].manifest = revision.after

\* the declarations of every list of manifest d: main, optional groups, dependency groups
all_lists(d) == {uv_slot_deps(d, uv_slots(d)[i]) : i \in 1..Len(uv_slots(d))}

declares_safety(deps) ==
    \E i \in 1..Len(deps) :
        deps[i].kind = "str" /\ lower(parse_requirement(deps[i].text).original_name) = <<"s","a","f","e","t","y">>

\* C3: after the psutil/safety fix no group of the manifest (main list,
\* optional groups, dependency groups) contains a 'safety' declaration.
C3_SafetyRemovedFromEveryGroup ==
    (variant = "uv" /\ fix_applied) => \A deps \in all_lists(revision.after) : ~declares_safety(deps)

\* the planner has handled a declaration and the Registry Client returned to it
planned == last_lookup.input # <<>> /\ ~last_lookup.raised

declared == last_lookup.input[1]

declared_req == parse_requirement(declared.text)

\* the entry rewritten to the floor ">=" + L
floor_entry(L) ==
    IF variant = "uv" THEN Str(declared_req.original_name \o declared_req.extras \o <<">","=">> \o L)
    ELSE Item(declared.key, <<">","=">> \o L)

\* the entry as each program rewrites it: floor ">=" + L in pyproject.toml, caret "^" + L in package.json
rewritten_entry(L) ==
    IF variant = "uv" THEN floor_entry(L) ELSE Item(declared.key, <<"^">> \o L)

absent_preserved == last_lookup.output = last_lookup.input /\ last_lookup.records = <<>>

declared_name == IF variant = "uv" THEN declared_req.original_name ELSE declared.key

declared_old ==
    IF variant = "uv" THEN extract_version_from_constraint(declared_req.constraint)
    ELSE yarn_extract_version_from_constraint(declared.value)

\* the update record "<name>: <old-or-'none'> -> <L>"
expected_record(L) ==
    declared_name \o <<":"," ">> \o (IF truthy(declared_old) THEN declared_old ELSE <<"n","o","n","e">>) \o <<" ","-",">"," ">> \o L

record_iff_newer ==
    last_lookup.records = IF is_version_newer(last_lookup.latest, declared_old)
                          THEN <<expected_record(last_lookup.latest)>> ELSE <<>>

final_manifest == IF written THEN file.content ELSE data

planning_over == pc \in {"verify", "verify_wait", "lock", "lock_wait", "write", "open", "dump"}
                 \/ (pc = "done" /\ exit_code = 0 /\ loaded # NoManifest)

markers_last(deps) ==
    \A a, b \in 1..Len(deps) : (a < b /\ is_include_group(deps[a])) => is_include_group(deps[b])

group_kept(before, after) ==
    /\ before.key = after.key
    /\ SelectSeq(after.value, is_include_group) = SelectSeq(before.value, is_include_group)
    /\ markers_last(after.value)

\* C6: in every named dependency group of the final manifest every
\* include-marker of the input group is present, unmodified and in the same
\* relative order, and all include-markers come after all literal entries.
C6_IncludeMarkersKeptAndLast ==
    (variant = "uv" /\ planning_over) =>
        /\ Len(groups_of(final_manifest)) = Len(groups_of(loaded))
        /\ \A i \in 1..Len(groups_of(loaded)) : group_kept(groups_of(loaded)[i], groups_of(final_manifest)[i])

\* a written manifest whose input had a marker before a literal entry, revised by the corrective pass
C6_Witness ==
    /\ written /\ loaded = UvManifest2
    /\ revision.kind # "none" /\ revision.after # revision.before
    /\ \E i \in 1..Len(groups_of(file.content)) : Len(include_groups(groups_of(file.content)[i].value)) = 2

\* C7: within one run the registry is queried at most once per normalized
\* package name, whatever the outcome of the first query.
C7_QueriedAtMostOncePerName == \A k \in DOMAIN fetch_count : fetch_count[k] <= 1

fold(c) == IF c \in {"_", "-"} THEN "-" ELSE IF IsUpper(c) THEN LowerChars[IndexOf(c, UpperChars)] ELSE c

\* a and b name the same package of the registry of the variant
alias(a, b) ==
    IF variant = "uv" THEN Len(a) = Len(b) /\ \A i \in 1..Len(a) : fold(a[i]) = fold(b[i])
    ELSE a = b

\* C8: after a successful lookup of a package, a later lookup under a
\* differently-cased or differently-separated alias of the same package is
\* answered from the cache without a new registry request.
C8_AliasAnsweredFromCache ==
    (\E n \in last_lookup.known : alias(n, last_lookup.original_name)) => ~last_lookup.requested

C8_Witness ==
    /\ variant = "uv"
    /\ last_lookup.original_name = <<"f","o","o","-","b","a","r">>
    /\ <<"F","o","o","_","B","a","r">> \in last_lookup.known
    /\ last_lookup.response = "cached"

\* the payload lacks the shape the variant reads the latest version from
lacks_shape(payload) == IF variant = "uv" THEN ~uv_shaped(payload) ELSE npm_latest(payload) = None

lookup_failed ==
    /\ last_lookup.requested
    /\ \/ last_lookup.response \in RequestExceptions
       \/ last_lookup.response = "json" /\ lacks_shape(last_lookup.payload)

\* C9: any registry lookup failure (timeout, non-2xx status, malformed or
\* shapeless payload) makes get_latest return absent without raising; the run
\* continues and the affected declaration is left unchanged.
C9_LookupFailureYieldsAbsent ==
    lookup_failed =>
        /\ ~last_lookup.raised
        /\ last_lookup.latest = None
        /\ last_lookup.input # <<>> => last_lookup.output = last_lookup.input
        /\ ~(pc = "done" /\ exit_code = 1)

exited(run) == run.outcome = "exited"

no_verdict(run) == run.outcome \in {"not_installed", "launch_error", "timeout"}

corrective_pass == pc \in {"lock", "lock_wait", "reverify", "reverify_wait"}

\* C11: a verifier run whose tool is absent from the path, cannot be launched
\* or times out returns ok (assume compatible) and raises nothing: the run
\* goes on to writing, with no corrective pass and no abort caused by it.
C11_NoVerdictIsOk ==
    /\ \A i \in 1..Len(verifier_runs) : no_verdict(verifier_runs[i]) => verifier_runs[i].ok
    /\ (Len(verifier_runs) >= 1 /\ no_verdict(verifier_runs[1]))
          => /\ lock_runs = 0
             /\ ~corrective_pass
             /\ Len(verifier_runs) = 1

C11_Witness ==
    /\ variant = "yarn" /\ Len(verifier_runs) = 1
    /\ verifier_runs[1].outcome = "timeout" /\ verifier_runs[1].ok
    /\ pc = "write" /\ temp_dirs = 0

\* ---- C12 ----

\* the lock-upgrade subcommand succeeded and the extractor read a non-empty map
lock_map == lock_result.package_versions

lock_map_read == lock_result.outcome = "read" /\ lock_map # <<>>

\* the package called name is a key of the lock-derived map
in_lock_map(name) == \E i \in 1..Len(lock_map) : alias(lock_map[i].key, name)

lock_version(name) == lock_map[CHOOSE i \in 1..Len(lock_map) : alias(lock_map[i].key, name)].value

\* the declaration a planned declaration must have become under the map
uv_superseded(dep, name, extras) ==
    IF in_lock_map(name) THEN Str(name \o extras \o <<">","=">> \o lock_version(name)) ELSE dep

uv_superseded_dep(dep) ==
    IF dep.kind = "str"
    THEN uv_superseded(dep, parse_requirement(dep.text).original_name, parse_requirement(dep.text).extras)
    ELSE dep

yarn_superseded_item(item) ==
    IF in_lock_map(item.key) THEN Item(item.key, <<"^">> \o lock_version(item.key)) ELSE item

superseded_list(before, after) ==
    /\ Len(after) = Len(before)
    /\ \A i \in 1..Len(before) :
          after[i] = IF variant = "uv" THEN uv_superseded_dep(before[i]) ELSE yarn_superseded_item(before[i])

superseded(before, after) ==
    IF variant = "uv"
    THEN /\ uv_slots(after) = uv_slots(before)
         /\ \A i \in 1..Len(uv_slots(before)) :
               superseded_list(uv_slot_deps(before, uv_slots(before)[i]), uv_slot_deps(after, uv_slots(before)[i]))
    ELSE /\ DOMAIN after = DOMAIN before
         /\ \A i \in 1..Len(YarnSections) :
               has_section(before, YarnSections[i])
                  => superseded_list(before[YarnSections[i]], after[YarnSections[i]])

\* C12: when the extractor read a non-empty map M from the lock file, every
\* literal declaration of every group of the final manifest whose package is
\* a key of M carries M[package] in place of the planner's version, and every
\* other declaration is exactly as the planner produced it.
C12_LockMapSupersedesPlanner == lock_map_read => superseded(planner_data, final_manifest)

\* ---- C13 ----

\* the lock-upgrade subcommand succeeded and the extractor found no entry
empty_lock_map_read == lock_result.outcome = "read" /\ lock_map = <<>>

\* C13: when the lock-upgrade subcommand succeeds but the extractor yields
\* zero entries, the final manifest is the planner's manifest and the update
\* records reported are still the planner's.
C13_EmptyLockMapIsNoInformation ==
    empty_lock_map_read
        => /\ final_manifest = planner_data
           /\ all_updated_packages = lock_result.records

\* ---- C15 ----

\* the resolver was called with an error text that matches no signature of its table
no_signature_matched ==
    /\ lock_result.outcome = "failed"
    /\ lock_result.error_output # <<>>
    /\ ~(IF variant = "uv" THEN uv_signature(lock_result.error_output)
                           ELSE yarn_signature(lock_result.error_output))

\* C15: when the error text matches no signature of the resolver's table,
\* resolve returns the manifest unchanged: every group has exactly the
\* entries it had before the call.
C15_NoSignatureLeavesManifest ==
    no_signature_matched
        => /\ resolved_data = planner_data
           /\ final_manifest = planner_data

C15_Witness ==
    /\ variant = "uv" /\ no_signature_matched
    /\ loaded = UvManifest2 /\ pc = "write"
    /\ \E deps \in all_lists(resolved_data) : declares_safety(deps)

\* ---- C16 ----

parsable(v) == version_parse(v) # InvalidVersion

\* release a is at most release b, missing components counting as 0
at_most(a, b) ==
    \A i \in 1..(Len(a) + Len(b)) :
        (\A j \in 1..(i-1) : component(a, j) = component(b, j)) => component(a, i) <= component(b, i)

strictly_greater(new_version, old_version) == ~at_most(version_parse(new_version), version_parse(old_version))

\* C16: is_newer(candidate, baseline) is true whenever the baseline is absent
\* or either operand is unparsable as a version; otherwise it is true if and
\* only if the candidate is strictly greater than the baseline, so that
\* is_newer(v, v) is false for every parsable v.
C16_NewerIffStrictlyGreater ==
    comparison.returned
        => /\ (comparison.old_version = None \/ ~parsable(comparison.old_version)
                  \/ ~parsable(comparison.new_version)) => comparison.is_newer
           /\ (comparison.old_version # None /\ parsable(comparison.old_version)
                  /\ parsable(comparison.new_version))
                 => (comparison.is_newer <=> strictly_greater(comparison.new_version, comparison.old_version))
           /\ (comparison.old_version = comparison.new_version /\ parsable(comparison.new_version))
                 => ~comparison.is_newer

C16_Witness ==
    /\ comparison.returned
    /\ comparison.new_version = <<"1",".","5">> /\ comparison.old_version = <<"1",".","5",".","0">>
    /\ ~comparison.is_newer

\* ---- C17 ----

\* the target is being overwritten or has been: it is open for writing, or
\* the run has written it, or its content is no longer what was read
overwriting == loaded # NoManifest /\ (pc = "dump" \/ written \/ file # Complete(loaded))

\* C17 as claimed: in every run that overwrites the target, a backup copy of
\* the pre-change manifest exists before the target is overwritten.
C17_BackupBeforeOverwrite == overwriting => backup_file = Complete(loaded)

\* C17: in every run that overwrites the target and was not started with
\* --no-backup, a backup copy of the pre-change manifest exists before the
\* target is overwritten.
C17_BackupBeforeOverwriteUnlessNoBackup == (overwriting /\ backup) => backup_file = Complete(loaded)

C17_Witness ==
    /\ backup /\ pc = "dump" /\ file = Partial
    /\ backup_file = Complete(loaded) /\ data # loaded

\* ---- C18 ----

\* C18: when the run is interrupted or aborts, at any point, the process
\* exits with a non-zero status and the target holds its complete original
\* content or a complete new manifest, never a partially written one.
C18_NoPartialTargetAfterAbort ==
    (pc = "done" /\ exit_code # 0)
        => /\ exit_code > 0
           /\ file.state # "partial"

\* ---- C19 ----

\* C19: with --dry-run the run neither creates nor modifies the target or a
\* backup file, whatever planning, verification and the corrective pass did.
C19_DryRunTouchesNoFile ==
    dry_run
        => /\ backup_file = Missing
           /\ file.state # "partial"
           /\ loaded # NoManifest => file = Complete(loaded)
           /\ pc \notin {"open", "dump"}

C19_Witness ==
    /\ dry_run /\ backup /\ pc = "done" /\ exit_code = 0
    /\ revision.kind = "lock" /\ data # loaded
    /\ file = Complete(loaded) /\ backup_file = Missing

\* ---- C20 ----

\* the resolver was called: the lock-upgrade subcommand failed with an error text
resolver_called == lock_result.outcome = "failed" /\ lock_result.error_output # <<>>

\* what the failed run of the verifier printed, stderr then stdout
verifier_output == verifier_runs[1].stderr \o verifier_runs[1].stdout

\* C20: the error text the resolver tests against its signatures is the
\* combined stderr/stdout output of the failed verifier run, verbatim.
C20_ResolverReadsVerifierOutput == resolver_called => lock_result.error_output = verifier_output

\* ---- C21 ----

\* get_latest_version has been called for the declaration last handed to the planner
uv_declaration_looked_up == variant = "uv" /\ last_lookup # NoLookup /\ last_lookup.input # <<>>

\* C21: the normalized name the parser returns for a declaration is a fixed
\* point of the registry's normalization (case-folded, underscore and hyphen
\* equivalent) and is the key the registry client uses for that package, so
\* that the parser, the cache and the lock map lookup agree on one name.
C21_ParserNameIsRegistryKey ==
    uv_declaration_looked_up
        => /\ uv_normalize(declared_req.normalized_name) = declared_req.normalized_name
           /\ declared_req.normalized_name = last_lookup.key

\* ---- C22 ----

\* C22: for every declaration d, also a malformed one that the fallback
\* handles, parsing the planner's rendering (original_name + extras + ">=" +
\* version) of parse(d) yields the original_name, normalized_name and extras
\* of parse(d).
C22_ParseRenderParseStable ==
    round_trip.returned
        => /\ round_trip.reparsed.original_name = round_trip.parsed.original_name
           /\ round_trip.reparsed.normalized_name = round_trip.parsed.normalized_name
           /\ round_trip.reparsed.extras = round_trip.parsed.extras

\* ---- C23 ----

\* C23: outside the verifier run and the lock command no scratch directory
\* exists: the one each of them made is gone once it has been left, whether
\* it returned a verdict, failed, or ended in a caught exception or timeout
C23_NoScratchDirectoryLeftBehind ==
    pc \notin {"verify_wait", "reverify_wait", "lock_wait"} => temp_dirs = 0

\* the verifier found a conflict, the lock command raised, and both
\* directories are gone
C23_Witness ==
    /\ lock_runs = 1 /\ lock_result.outcome = "raised"
    /\ Len(verifier_runs) = 1 /\ ~verifier_runs[1].ok
    /\ pc = "write" /\ temp_dirs = 0

\* ---- C24 ----

Record(name, version) == [name |-> name, version |-> version]

\* the records a lock text of the model holds, read off the text: the
\* package and its version, None for a record with no version line
lock_records(lock) ==
    IF lock = UvLockFull THEN {Record(<<"f","o","o","-","b","a","r">>, <<"1",".","0",".","0">>), Record(<<"S","a","f","e","t","y">>, <<"2",".","5">>)}
    ELSE IF lock = UvLockTruncated THEN {Record(<<"p","s","u","t","i","l">>, None), Record(<<"f","o","o","_","b","a","r">>, <<"1",".","4">>)}
    ELSE IF lock = YarnLockClassic
    THEN {Record(<<"r","e","a","c","t">>, <<"1",".","5",".","0">>), Record(<<"@","t","y","p","e","s","/","r","e","a","c","t">>, <<"3",".","0",".","0">>), Record(<<"f","s","e","v","e","n","t","s">>, <<"1",".","9",".","0">>)}
    ELSE IF lock = YarnLockBerry THEN {Record(<<"r","e","a","c","t">>, <<"1",".","5",".","0">>)}
    ELSE {}

\* the lock-upgrade subcommand left a lock text and the extractor scanned it
lock_text_scanned == lock_result.outcome = "read" /\ variant # "npm"

\* the map holds the record's package with the record's version
extracted(r) == in_lock_map(r.name) /\ lock_version(r.name) = r.version

\* C24: the map the extractor builds from a lock text holds every
\* package/version pair of the text, and a record with no version line
\* contributes no entry
C24_ExtractorFindsEveryPair ==
    lock_text_scanned
        => \A r \in lock_records(lock_result.lock) :
              IF r.version = None THEN ~in_lock_map(r.name) ELSE extracted(r)

\* ---- C25 ----

\* the run has left planning, verification and the corrective pass
reporting == pc \in {"write", "open", "dump", "done"}

\* C25: a run invokes the verifier at most twice and the lock-upgrade
\* subcommand at most once, and once it has gone on to reporting and
\* writing it never returns to verification or to the corrective pass
C25_SingleCorrectivePass ==
    /\ [](Len(verifier_runs) <= 2 /\ lock_runs <= 1)
    /\ [][reporting => reporting']_vars

\* a run that made its corrective pass and ended
C25_Witness == pc = "done" /\ lock_runs = 1 /\ Len(verifier_runs) = 1 /\ lock_result.outcome = "failed"

\* ---- C26 ----

lock_applied == revision.kind = "lock"

first_check_passed == Len(verifier_runs) >= 1 /\ verifier_runs[1].ok

\* C26: a conflict fix is applied only after the lock-upgrade subcommand ran
\* and exited non-zero with non-empty stderr, a lock-derived map is applied
\* only after it exited with 0, a manifest revised one way is never revised
\* the other way, and a run whose first verification passed runs neither the
\* subcommand nor the resolver
C26_LockUpgradeFirstThenResolver ==
    /\ [](/\ fix_applied => lock_runs = 1 /\ lock_result.outcome = "failed" /\ lock_result.error_output # <<>>
          /\ lock_applied => lock_runs = 1 /\ lock_result.outcome = "read"
          /\ first_check_passed => lock_runs = 0 /\ revision = NoRevision)
    /\ [][(lock_applied => lock_applied') /\ (fix_applied => fix_applied')]_vars

\* the lock-upgrade subcommand failed, the resolver applied a fix, and the
\* run ended
C26_Witness ==
    /\ pc = "done" /\ fix_applied
    /\ lock_runs = 1 /\ lock_result.outcome = "failed"
    /\ ~verifier_runs[1].ok

\* ---- C27 ----

\* the first verification has returned and the corrective pass, if one was
\* opened, has been left
checks_over ==
    /\ Len(verifier_runs) >= 1 /\ temp_dirs = 0
    /\ verifier_runs[1].ok \/ (lock_runs = 1 /\ lock_result # NoLockResult)

\* C27: the target changes only in the write at the end of the run, after
\* the first verification and the corrective pass are over: it is as it was
\* read until it is opened, it is opened once, and what follows the opening
\* is the dump
C27_TargetWrittenOnceAfterChecks ==
    /\ [][file' # file
            => /\ checks_over
               /\ \/ pc = "open" /\ file = Complete(loaded) /\ pc' = "dump"
                  \/ pc = "dump" /\ file = Partial /\ pc' = "done"]_vars
    /\ [][pc' = "open" => pc = "write"]_vars

\* the lock-upgrade subcommand raised, the exception was caught, and the
\* target was written with the planner's manifest
C27_Witness ==
    /\ written /\ file.content = data
    /\ lock_result.outcome = "raised"

\* ---- C28 ----

\* every entry of the cache is still there, with the same document
cache_kept == \A k \in DOMAIN package_cache : k \in DOMAIN package_cache' /\ package_cache'[k] = package_cache[k]

\* every new entry was requested in this step, and the entry made by the
\* last lookup of the step is the document that request returned
added_on_fetch ==
    \A k \in DOMAIN package_cache' \ DOMAIN package_cache :
        /\ Count(fetch_count', k) > Count(fetch_count, k)
        /\ last_lookup'.key = k => last_lookup'.response = "json" /\ package_cache'[k] = last_lookup'.payload

\* what the Update Planner rewrote: the declarations of planner_data that
\* loaded does not hold, as package name and floor version
uv_declarations(d) ==
    UNION {{deps[i].text : i \in {n \in 1..Len(deps) : deps[n].kind = "str"}} : deps \in all_lists(d)}

uv_rewrites ==
    {[name |-> uv_normalize(parse_requirement(t).original_name),
      floor |-> extract_version_from_constraint(parse_requirement(t).constraint)] :
        t \in uv_declarations(planner_data) \ uv_declarations(loaded)}

yarn_declarations(d) ==
    UNION {{d[section][i] : i \in 1..Len(d[section])} :
              section \in {YarnSections[n] : n \in 1..Len(YarnSections)} \cap DOMAIN d}

yarn_rewrites ==
    {[name |-> item.key, floor |-> yarn_extract_version_from_constraint(item.value)] :
        item \in yarn_declarations(planner_data) \ yarn_declarations(loaded)}

rewrites == IF variant = "uv" THEN uv_rewrites ELSE yarn_rewrites

same_floor_per_name == \A a, b \in rewrites : a.name = b.name => a.floor = b.floor

\* C28: an entry of the cache is added only by a request that returned a
\* document and is never overwritten or removed, and the declarations of one
\* package that the Update Planner rewrote, in whatever lists, all have the
\* same floor version
C28_CacheOnlyGrowsSoOneFloorPerName ==
    /\ [][cache_kept /\ added_on_fetch]_vars
    /\ [](planner_data # NoManifest => same_floor_per_name)

\* two declarations of one package, Foo_Bar[b,a] and foo-bar, in two lists
\* were rewritten to the newer of the two versions the registry reported
C28_Witness ==
    /\ loaded = UvManifest1 /\ planner_data # NoManifest
    /\ \E a, b \in uv_declarations(planner_data) \ uv_declarations(loaded) :
          /\ a # b
          /\ uv_normalize(parse_requirement(a).original_name) = uv_normalize(parse_requirement(b).original_name)
    /\ \E r \in uv_rewrites : r.floor = VersionPool[3]

\* ---- C29 ----

planned_sections == {YarnSections[n] : n \in 1..Len(YarnSections)}

package_keys(section) == {section[i].key : i \in 1..Len(section)}

\* manifest after has the fields of manifest before, the fields that are
\* not planned sections with their values, and the planned sections with
\* the same packages
same_but_constraints(before, after) ==
    /\ DOMAIN after = DOMAIN before
    /\ \A field \in DOMAIN before :
          IF field \in planned_sections
          THEN Len(after[field]) = Len(before[field]) /\ package_keys(after[field]) = package_keys(before[field])
          ELSE after[field] = before[field]

\* C29: with yarn and npm the manifest of the run and the manifest written
\* differ from the manifest read only in constraint values of dependencies,
\* devDependencies and optionalDependencies: the same fields, the same
\* packages in each section, every other field as it was
C29_OnlyConstraintValuesChange ==
    (variant # "uv" /\ loaded # NoManifest)
        => /\ same_but_constraints(loaded, data)
           /\ file.state = "complete" => same_but_constraints(loaded, file.content)

\* a package.json with peerDependencies, planned, taken through the
\* application of a lock map and written with other constraints
C29_Witness ==
    /\ variant = "yarn" /\ written /\ loaded = YarnManifest1
    /\ lock_applied
    /\ file.content # loaded

====
